---------------------------- MODULE Spec2Model ----------------------------
(***************************************************************************)
(* A model of the branch-graph resolution engine of jf (src/src/jf):       *)
(* reference names (git.py), the typed configuration schema (schema.py,    *)
(* config.py), the logical branch (branch.py), the repository cache        *)
(* (repo.py) and the merge-status classifiers (cmd/list.py,                *)
(* cmd/delete.py).                                                         *)
(*                                                                         *)
(* Strings are TLA+ strings, taken apart with Len, SubSeq and \o, so that  *)
(* prefixes, suffixes and partitions are computed as the code computes     *)
(* them.  The outside world (the output of git config --list, of git       *)
(* show-ref, of git rev-list --all) is the state; every operation of the   *)
(* program is an action that reads it and records what the call returned.  *)
(***************************************************************************)
EXTENDS Integers, Sequences, FiniteSets, TLC

VARIABLES
    gitconfig,  \* lines "name=value" printed by git config --list
    head_sha,   \* what git rev-parse HEAD prints
    show_ref,   \* lines of git show-ref --dereference: [sha, name]
    rev_list,   \* commits of git rev-list --all: [sha, parents]
    cache,      \* the memoized attributes of the command's Cache object
    holder,     \* the command's GitConfigHolder and the typed values read from it
    call        \* the last call made on the program and what it returned

vars == <<gitconfig, head_sha, show_ref, rev_list, cache, holder, call>>

\* what a call on a fresh Cache leaves as it is
world == <<gitconfig, head_sha, show_ref, rev_list, cache, holder>>

\* Cache.__init__: no cached attribute yet.  memo is what __dict__ and the
\* lru_cache of resolve_shortcut hold; enumerations and listings count the runs
\* of git show-ref and git rev-list, and first records what each attribute
\* returned when it was first read
NewCache == [memo |-> <<>>, enumerations |-> 0, listings |-> 0, first |-> <<>>]

\* GitConfigHolder.__init__ and GenericBranch.__init__: _config is None and no
\* typed value is cached.  config is _config; value is the cached value of the
\* ValueCfg the branch's section holds for jflow.hidden and hidden the cached
\* attribute of the branch; writes counts the writes of the command
NewHolder ==
    [config |-> [loaded |-> FALSE, raw |-> <<>>],
     value |-> [cached |-> FALSE, v |-> FALSE],
     hidden |-> [cached |-> FALSE, v |-> FALSE],
     writes |-> 0]

\* a Cache and a GitConfigHolder just constructed: nothing read yet
Fresh == cache = NewCache /\ holder = NewHolder

(***************************************************************************)
(* Bounds of the model.                                                    *)
(***************************************************************************)
MaxCfgLines == 3

(***************************************************************************)
(* String helpers (Python's str methods).                                  *)
(***************************************************************************)
StartsWith(s, p) == Len(p) <= Len(s) /\ SubSeq(s, 1, Len(p)) = p

EndsWith(s, x) == Len(x) <= Len(s) /\ SubSeq(s, Len(s) - Len(x) + 1, Len(s)) = x

\* str.find: the 0-based index of the first occurrence, -1 when there is none
RECURSIVE FindFrom(_, _, _)
FindFrom(s, c, i) ==
    IF i + Len(c) - 1 > Len(s) THEN -1
    ELSE IF SubSeq(s, i, i + Len(c) - 1) = c THEN i - 1
    ELSE FindFrom(s, c, i + 1)

Find(s, c) == FindFrom(s, c, 1)

\* str.partition: <<before, separator, after>>, <<s, "", "">> without separator
Partition(s, sep) ==
    LET i == Find(s, sep)
    IN IF i < 0 THEN <<s, "", "">>
       ELSE <<SubSeq(s, 1, i), sep, SubSeq(s, i + Len(sep) + 1, Len(s))>>

\* the characters of the names in use, in code point order
Alphabet == "-./0123456789=ABCDEFGHIJKLMNOPQRSTUVWXYZ^_abcdefghijklmnopqrstuvwxyz{}"

Ord(c) == CHOOSE i \in 1..Len(Alphabet) : SubSeq(Alphabet, i, i) = c

\* Python's s < t on strings: lexicographic by code point
RECURSIVE StrLess(_, _)
StrLess(s, t) ==
    IF t = "" THEN FALSE
    ELSE IF s = "" THEN TRUE
    ELSE LET a == Ord(SubSeq(s, 1, 1))
             b == Ord(SubSeq(t, 1, 1))
         IN IF a # b THEN a < b
            ELSE StrLess(SubSeq(s, 2, Len(s)), SubSeq(t, 2, Len(t)))

\* SEPARATOR.join(parts)
RECURSIVE Join(_, _)
Join(sep, parts) ==
    IF parts = <<>> THEN ""
    ELSE IF Len(parts) = 1 THEN parts[1]
    ELSE parts[1] \o sep \o Join(sep, Tail(parts))

(***************************************************************************)
(* git.py: constants and RefName.                                          *)
(***************************************************************************)
HEAD_PREFIX == "refs/heads/"
TAG_PREFIX == "refs/tags/"
REMOTE_PREFIX == "refs/remotes/"
GENERIC_PREFIX == "refs/"
PATCH_PREFIX == "refs/patches/"
STGIT_SUFFIX == ".stgit"
PATCH_LOG_SUFFIX == ".log"
REMOTE_LOCAL == "."
REMOTE_ORIGIN == "origin"

ZeroBranchName == ""

\* RefName.for_branch, were the remote left out of the name
for_branch_no_remote(remote, branch_name) ==
    IF remote = REMOTE_LOCAL THEN HEAD_PREFIX \o branch_name
    ELSE REMOTE_PREFIX \o branch_name

\* RefName.for_branch, were the local remote treated as any other
for_branch_always_remote(remote, branch_name) ==
    REMOTE_PREFIX \o remote \o "/" \o branch_name

for_branch(remote, branch_name) ==
    IF remote = REMOTE_LOCAL THEN HEAD_PREFIX \o branch_name
    ELSE REMOTE_PREFIX \o remote \o "/" \o branch_name

RefName_short(name) ==
    IF StartsWith(name, HEAD_PREFIX) THEN SubSeq(name, Len(HEAD_PREFIX) + 1, Len(name))
    ELSE IF StartsWith(name, TAG_PREFIX) THEN SubSeq(name, Len(TAG_PREFIX) + 1, Len(name))
    ELSE IF StartsWith(name, REMOTE_PREFIX) THEN SubSeq(name, Len(REMOTE_PREFIX) + 1, Len(name))
    ELSE IF StartsWith(name, GENERIC_PREFIX) THEN SubSeq(name, Len(GENERIC_PREFIX) + 1, Len(name))
    ELSE name

\* RefName.kind, were the patch logs not told from the patches
RefName_kind_no_log(name) ==
    IF StartsWith(name, HEAD_PREFIX)
    THEN (IF EndsWith(name, STGIT_SUFFIX) THEN "stgit" ELSE "head")
    ELSE IF StartsWith(name, TAG_PREFIX) THEN "tag"
    ELSE IF StartsWith(name, REMOTE_PREFIX) THEN "remote"
    ELSE IF StartsWith(name, PATCH_PREFIX) THEN "patch"
    ELSE "unknown"

RefName_kind(name) ==
    IF StartsWith(name, HEAD_PREFIX)
    THEN (IF EndsWith(name, STGIT_SUFFIX) THEN "stgit" ELSE "head")
    ELSE IF StartsWith(name, TAG_PREFIX) THEN "tag"
    ELSE IF StartsWith(name, REMOTE_PREFIX) THEN "remote"
    ELSE IF StartsWith(name, PATCH_PREFIX)
    THEN (IF EndsWith(name, PATCH_LOG_SUFFIX) THEN "patch_log" ELSE "patch")
    ELSE "unknown"

RefName_is_remote(name) == RefName_kind(name) = "remote"

RefName_remote(name) ==
    IF RefName_kind(name) = "remote" THEN Partition(RefName_short(name), "/")[1]
    ELSE REMOTE_LOCAL

RefName_branch(name) ==
    IF RefName_kind(name) \in {"head", "stgit"} THEN RefName_short(name)
    ELSE IF RefName_kind(name) = "remote" THEN Partition(RefName_short(name), "/")[3]
    ELSE ZeroBranchName

\* BranchName.ref(remote), as branch.py writes the step that GenericBranch
\* (upstream_name, fork_name) writes as RefName.for_branch(remote, branch_name)
BranchName_ref(branch_name, remote) == for_branch(remote, branch_name)


(***************************************************************************)
(* config.py: GitConfigHolder, the raw multimap name -> [values].          *)
(***************************************************************************)
\* _gen_config: line.split('=', 1)
gen_config(line) ==
    LET parts == Partition(line, "=")
    IN <<parts[1], parts[3]>>

RECURSIVE ValuesOf(_, _)
ValuesOf(pairs, name) ==
    IF pairs = <<>> THEN <<>>
    ELSE (IF Head(pairs)[1] = name THEN <<Head(pairs)[2]>> ELSE <<>>)
         \o ValuesOf(Tail(pairs), name)

\* GitConfigHolder.config: every name with its values in the order printed
GitConfigHolder_config(lines) ==
    LET pairs == [i \in 1..Len(lines) |-> gen_config(lines[i])]
    IN [name \in {pairs[i][1] : i \in 1..Len(pairs)} |-> ValuesOf(pairs, name)]

\* the configuration a fresh Root() reads
Config == GitConfigHolder_config(gitconfig)

(***************************************************************************)
(* schema.py: typed values over the raw multimap.                          *)
(***************************************************************************)
SEPARATOR == "."

\* Path.path
Path_path(path_list) == Join(SEPARATOR, path_list)

Digits == "0123456789"

\* IntType.from_string: int(s) of a decimal numeral
RECURSIVE ParseInt(_)
ParseInt(s) ==
    IF s = "" THEN 0
    ELSE 10 * ParseInt(SubSeq(s, 1, Len(s) - 1)) + Find(Digits, SubSeq(s, Len(s), Len(s)))

\* BoolType.from_string (strconv.parse_bool) on the values git prints
ParseBool(s) == s \in {"true", "yes", "on", "1"}

\* Optional[str]: absent, or a string
NoneStr == [ok |-> FALSE, v |-> ""]
SomeStr(s) == [ok |-> TRUE, v |-> s]
\* Python's truth of an Optional[str]
Truthy(o) == o.ok /\ o.v # ""

\* self.raw.get(self.path, [])
RawGet(raw, path) == IF path \in DOMAIN raw THEN raw[path] ELSE <<>>

\* MaybeValueCfg.value with StrType
MaybeValueCfg_value(raw, path_list) ==
    LET v_list == RawGet(raw, Path_path(path_list))
    IN IF v_list = <<>> THEN NoneStr ELSE SomeStr(v_list[1])

\* ListValueCfg.value with StrType
ListValueCfg_value(raw, path_list) == RawGet(raw, Path_path(path_list))

\* ValueCfg.value with StrType, were the last of the values read
ValueCfg_str_last(raw, path_list, default) ==
    LET v_list == RawGet(raw, Path_path(path_list))
    IN IF v_list = <<>> THEN default ELSE v_list[Len(v_list)]

\* ValueCfg.value with StrType
ValueCfg_str(raw, path_list, default) ==
    LET v_list == RawGet(raw, Path_path(path_list))
    IN IF v_list = <<>> THEN default ELSE v_list[1]

\* ValueCfg.value with IntType
ValueCfg_int(raw, path_list, default) ==
    LET v_list == RawGet(raw, Path_path(path_list))
    IN IF v_list = <<>> THEN default ELSE ParseInt(v_list[1])

\* ValueCfg.value with BoolType
ValueCfg_bool(raw, path_list, default) ==
    LET v_list == RawGet(raw, Path_path(path_list))
    IN IF v_list = <<>> THEN default ELSE ParseBool(v_list[1])

(***************************************************************************)
(* config.py: the schema of branch.<name>.* and jflow.*                    *)
(***************************************************************************)
\* Root.branch[name]
GitBranchCfg(name) == <<"branch", name>>
\* GitBranchCfg.jf
JfBranchCfg(name) == GitBranchCfg(name) \o <<"jflow">>
\* GitBranchCfg.stgit
StgitBranchCfg(name) == GitBranchCfg(name) \o <<"stgit">>
\* Root.jf
JfCfg == <<"jflow">>

(***************************************************************************)
(* branch.py: Generic, the logical branch of a head ref.  An accessor      *)
(* returns None, a RefName, or raises.                                     *)
(***************************************************************************)
NoneRef == [tag |-> "None", v |-> ""]
SomeRef(name) == [tag |-> "RefName", v |-> name]
Raise(exc) == [tag |-> "raise", v |-> exc]

\* raise UnsupportedJflowVersionError(v): __init__ calls super() with a str
\* argument, which raises TypeError before the exception is constructed
UnsupportedJflowVersionError == Raise("TypeError")

Generic_name(ref) == RefName_short(ref)

Generic_remote(raw, ref) ==
    LET r == MaybeValueCfg_value(raw, JfBranchCfg(Generic_name(ref)) \o <<"remote-name">>)
    IN IF Truthy(r) THEN r.v ELSE REMOTE_ORIGIN

Generic_jflow_version(raw, ref) ==
    ValueCfg_int(raw, JfBranchCfg(Generic_name(ref)) \o <<"version">>, 0)

Generic_is_jflow(raw, ref) == Generic_jflow_version(raw, ref) # 0

Generic_is_stgit(raw, ref) ==
    ValueCfg_int(raw, StgitBranchCfg(Generic_name(ref)) \o <<"stackformatversion">>, 0) # 0

Generic_stgit(raw, ref) ==
    IF ~Generic_is_stgit(raw, ref) THEN NoneRef
    ELSE SomeRef(ref \o STGIT_SUFFIX)

Generic_review(raw, ref) ==
    IF Generic_jflow_version(raw, ref) = 0 THEN NoneRef
    ELSE IF Generic_jflow_version(raw, ref) = 1
    THEN LET bn == MaybeValueCfg_value(raw, JfBranchCfg(Generic_name(ref)) \o <<"remote">>)
         IN IF ~Truthy(bn) THEN NoneRef
            ELSE SomeRef(BranchName_ref(bn.v, Generic_remote(raw, ref)))
    ELSE UnsupportedJflowVersionError

Generic_public(raw, ref) ==
    IF Generic_jflow_version(raw, ref) = 0 THEN NoneRef
    ELSE IF Generic_jflow_version(raw, ref) = 1
    THEN LET bn == MaybeValueCfg_value(raw, JfBranchCfg(Generic_name(ref)) \o <<"public">>)
         IN IF ~Truthy(bn) THEN NoneRef
            ELSE SomeRef(BranchName_ref(bn.v, REMOTE_LOCAL))
    ELSE UnsupportedJflowVersionError

Generic_debug(raw, ref) ==
    IF Generic_jflow_version(raw, ref) = 0 THEN NoneRef
    ELSE IF Generic_jflow_version(raw, ref) = 1
    THEN LET bn == MaybeValueCfg_value(raw, JfBranchCfg(Generic_name(ref)) \o <<"debug">>)
         IN IF ~Truthy(bn) THEN NoneRef
            ELSE SomeRef(BranchName_ref(bn.v, Generic_remote(raw, ref)))
    ELSE UnsupportedJflowVersionError

\* Generic.ldebug, were it not to fall back to the debug name
Generic_ldebug_no_fallback(raw, ref) ==
    IF Generic_jflow_version(raw, ref) = 0 THEN NoneRef
    ELSE IF Generic_jflow_version(raw, ref) = 1
    THEN LET bn == MaybeValueCfg_value(raw, JfBranchCfg(Generic_name(ref)) \o <<"ldebug">>)
         IN IF ~Truthy(bn) THEN NoneRef
            ELSE SomeRef(BranchName_ref(bn.v, REMOTE_LOCAL))
    ELSE UnsupportedJflowVersionError

Generic_ldebug(raw, ref) ==
    IF Generic_jflow_version(raw, ref) = 0 THEN NoneRef
    ELSE IF Generic_jflow_version(raw, ref) = 1
    THEN LET l == MaybeValueCfg_value(raw, JfBranchCfg(Generic_name(ref)) \o <<"ldebug">>)
             d == MaybeValueCfg_value(raw, JfBranchCfg(Generic_name(ref)) \o <<"debug">>)
             bn == IF Truthy(l) THEN l ELSE d
         IN IF ~Truthy(bn) THEN NoneRef
            ELSE SomeRef(BranchName_ref(bn.v, REMOTE_LOCAL))
    ELSE UnsupportedJflowVersionError

\* Generic.upstream, were version 1 to fall back to the template at feature/
Generic_upstream_template(raw, ref) ==
    IF Generic_jflow_version(raw, ref) = 0
    THEN LET merge == ValueCfg_str(raw, GitBranchCfg(Generic_name(ref)) \o <<"merge">>, "")
             remote == ValueCfg_str(raw, GitBranchCfg(Generic_name(ref)) \o <<"remote">>, "")
         IN IF merge = "" THEN NoneRef
            ELSE IF RefName_branch(merge) = "" THEN NoneRef
            ELSE SomeRef(BranchName_ref(RefName_branch(merge), remote))
    ELSE IF Generic_jflow_version(raw, ref) = 1
    THEN SomeRef(BranchName_ref(
             ValueCfg_str(raw, JfBranchCfg(Generic_name(ref)) \o <<"upstream">>,
                 ValueCfg_str(raw, <<"jflow", "template", "feature/", "upstream">>, "")),
             REMOTE_LOCAL))
    ELSE UnsupportedJflowVersionError

\* Generic.upstream, were version 0 to take the remote of Generic.remote
Generic_upstream_jflow_remote(raw, ref) ==
    IF Generic_jflow_version(raw, ref) = 0
    THEN LET merge == ValueCfg_str(raw, GitBranchCfg(Generic_name(ref)) \o <<"merge">>, "")
         IN IF merge = "" THEN NoneRef
            ELSE IF RefName_branch(merge) = "" THEN NoneRef
            ELSE SomeRef(BranchName_ref(RefName_branch(merge), Generic_remote(raw, ref)))
    ELSE IF Generic_jflow_version(raw, ref) = 1
    THEN SomeRef(BranchName_ref(
             ValueCfg_str(raw, JfBranchCfg(Generic_name(ref)) \o <<"upstream">>, ""),
             REMOTE_LOCAL))
    ELSE UnsupportedJflowVersionError

Generic_upstream(raw, ref) ==
    IF Generic_jflow_version(raw, ref) = 0
    THEN LET merge == ValueCfg_str(raw, GitBranchCfg(Generic_name(ref)) \o <<"merge">>, "")
             remote == ValueCfg_str(raw, GitBranchCfg(Generic_name(ref)) \o <<"remote">>, "")
         IN IF merge = "" THEN NoneRef
            ELSE IF RefName_branch(merge) = "" THEN NoneRef
            ELSE SomeRef(BranchName_ref(RefName_branch(merge), remote))
    ELSE IF Generic_jflow_version(raw, ref) = 1
    THEN SomeRef(BranchName_ref(
             ValueCfg_str(raw, JfBranchCfg(Generic_name(ref)) \o <<"upstream">>, ""),
             REMOTE_LOCAL))
    ELSE UnsupportedJflowVersionError

\* Generic.fork, were version 1 to skip the test for an empty name
Generic_fork_no_default(raw, ref) ==
    IF Generic_jflow_version(raw, ref) = 0 THEN Generic_upstream(raw, ref)
    ELSE IF Generic_jflow_version(raw, ref) = 1
    THEN SomeRef(BranchName_ref(
             ValueCfg_str(raw, JfBranchCfg(Generic_name(ref)) \o <<"fork">>, ""),
             REMOTE_LOCAL))
    ELSE UnsupportedJflowVersionError

Generic_fork(raw, ref) ==
    IF Generic_jflow_version(raw, ref) = 0 THEN Generic_upstream(raw, ref)
    ELSE IF Generic_jflow_version(raw, ref) = 1
    THEN LET bn == ValueCfg_str(raw, JfBranchCfg(Generic_name(ref)) \o <<"fork">>, "")
         IN IF bn = "" THEN Generic_upstream(raw, ref)
            ELSE SomeRef(BranchName_ref(bn, REMOTE_LOCAL))
    ELSE UnsupportedJflowVersionError

Generic_tested(raw, ref) ==
    LET bn == MaybeValueCfg_value(raw, JfBranchCfg(Generic_name(ref)) \o <<"tested">>)
    IN IF ~Truthy(bn) THEN NoneRef
       ELSE SomeRef(BranchName_ref(bn.v, REMOTE_LOCAL))

\* Python's truth of an Optional[RefName] an accessor returned
RefTruthy(r) == r.tag = "RefName" /\ r.v # ""

Generic_sync(raw, ref) ==
    IF Generic_is_jflow(raw, ref) THEN FALSE
    ELSE IF ValueCfg_bool(raw, JfBranchCfg(Generic_name(ref)) \o <<"sync">>, FALSE) THEN TRUE
    ELSE IF ~ValueCfg_bool(raw, JfCfg \o <<"autosync">>, FALSE) THEN FALSE
    ELSE IF ~(RefTruthy(Generic_upstream(raw, ref))
              /\ RefName_is_remote(Generic_upstream(raw, ref).v)) THEN FALSE
    ELSE TRUE


(***************************************************************************)
(* repo.py: Cache, the references of the repository.                       *)
(***************************************************************************)
DEREFERENCE_SUFFIX == "^{}"

\* a Ref: a name with the commit it points at
Ref(name, sha) == [name |-> name, sha |-> sha]

\* refs_dict[name] = sha, keeping the place of a name already there
DictPut(items, name, sha) ==
    IF \E i \in 1..Len(items) : items[i].name = name
    THEN [i \in 1..Len(items) |-> IF items[i].name = name THEN Ref(name, sha) ELSE items[i]]
    ELSE Append(items, Ref(name, sha))

RECURSIVE gen_refs_dict(_, _)
gen_refs_dict(lines, refs_dict) ==
    IF lines = <<>> THEN refs_dict
    ELSE LET name == Head(lines).name
             sha == Head(lines).sha
             deref == EndsWith(name, DEREFERENCE_SUFFIX)
             new_name == IF deref
                         THEN SubSeq(name, 1, Len(name) - Len(DEREFERENCE_SUFFIX))
                         ELSE name
         IN gen_refs_dict(
                Tail(lines),
                IF deref THEN DictPut(refs_dict, new_name, sha)
                ELSE IF \E i \in 1..Len(refs_dict) : refs_dict[i].name = new_name
                THEN refs_dict
                ELSE DictPut(refs_dict, new_name, sha))

\* gen_refs: HEAD first, then every name of show-ref once
gen_refs(head, lines) == <<Ref("HEAD", head)>> \o gen_refs_dict(lines, <<>>)

\* Cache.refs_list
Cache_refs_list == gen_refs(head_sha, show_ref)

\* _gen_prefixes
RECURSIVE gen_prefixes(_)
gen_prefixes(p) ==
    IF p = "" THEN <<"">>
    ELSE <<p>> \o gen_prefixes(SubSeq(p, Find(p, "/") + 2, Len(p)))

\* [p + short for p in _gen_prefixes(prefix)]
AbbrevsUnder(prefix, ref_name) ==
    LET short == SubSeq(ref_name, Len(prefix) + 1, Len(ref_name))
        ps == gen_prefixes(prefix)
    IN [i \in 1..Len(ps) |-> ps[i] \o short]

\* ref_abbrevs, were the short form the only abbreviation
ref_abbrevs_short_only(ref_name) == <<ref_name, RefName_short(ref_name)>>

ref_abbrevs(ref_name) ==
    IF StartsWith(ref_name, HEAD_PREFIX) THEN AbbrevsUnder(HEAD_PREFIX, ref_name)
    ELSE IF StartsWith(ref_name, TAG_PREFIX) THEN AbbrevsUnder(TAG_PREFIX, ref_name)
    ELSE IF StartsWith(ref_name, REMOTE_PREFIX) THEN AbbrevsUnder(REMOTE_PREFIX, ref_name)
    ELSE IF StartsWith(ref_name, GENERIC_PREFIX) THEN AbbrevsUnder(GENERIC_PREFIX, ref_name)
    ELSE <<ref_name>>

\* the pairs <<abbrev, ref>> in the order refs_abbrevs appends them
RECURSIVE AbbrevPairs(_)
AbbrevPairs(refs_list) ==
    IF refs_list = <<>> THEN <<>>
    ELSE LET ref == Head(refs_list)
             abbrevs == ref_abbrevs(ref.name)
         IN [i \in 1..Len(abbrevs) |-> <<abbrevs[i], ref>>] \o AbbrevPairs(Tail(refs_list))

RECURSIVE RefsOfAbbrev(_, _)
RefsOfAbbrev(pairs, abbrev) ==
    IF pairs = <<>> THEN <<>>
    ELSE (IF Head(pairs)[1] = abbrev THEN <<Head(pairs)[2]>> ELSE <<>>)
         \o RefsOfAbbrev(Tail(pairs), abbrev)

\* Cache.refs_abbrevs: abbreviation -> the refs it abbreviates
Cache_refs_abbrevs(refs_list) ==
    LET pairs == AbbrevPairs(refs_list)
    IN [abbrev \in {pairs[i][1] : i \in 1..Len(pairs)} |-> RefsOfAbbrev(pairs, abbrev)]

\* Cache.refs: the abbreviations of one ref only
Cache_refs(refs_list) ==
    LET abbrevs == Cache_refs_abbrevs(refs_list)
    IN [name \in {a \in DOMAIN abbrevs : Len(abbrevs[a]) = 1} |-> abbrevs[name][1]]

\* an Optional[Ref] a lookup returned: None, a Ref, or an exception raised
NoneResolved == [tag |-> "None", v |-> "", sha |-> ""]
SomeResolved(ref) == [tag |-> "Ref", v |-> ref.name, sha |-> ref.sha]
RaiseResolved(exc) == [tag |-> "raise", v |-> exc, sha |-> ""]

\* Cache.get_ref, were the first candidate returned
Cache_get_ref_first(refs_list, ref_name) ==
    LET abbrevs == Cache_refs_abbrevs(refs_list)
    IN IF ref_name \notin DOMAIN abbrevs THEN RaiseResolved("KeyError")
       ELSE SomeResolved(abbrevs[ref_name][1])

\* Cache.get_ref
Cache_get_ref(refs_list, ref_name) ==
    LET abbrevs == Cache_refs_abbrevs(refs_list)
    IN IF ref_name \notin DOMAIN abbrevs THEN RaiseResolved("KeyError")
       ELSE IF Len(abbrevs[ref_name]) > 1 THEN RaiseResolved("Error")
       ELSE SomeResolved(abbrevs[ref_name][1])

\* self.gc.refs.get(ref_name, None) of the <attr>_resolved properties
Resolve(refs, ref_name) ==
    IF ref_name.tag = "raise" THEN RaiseResolved(ref_name.v)
    ELSE IF ~RefTruthy(ref_name) THEN NoneResolved
    ELSE IF ref_name.v \in DOMAIN refs THEN SomeResolved(refs[ref_name.v])
    ELSE NoneResolved

\* Branch.upstream_resolved, refs being gc.refs
Branch_upstream_resolved(raw, refs, ref) == Resolve(refs, Generic_upstream(raw, ref))

\* Branch.fork_resolved, refs being gc.refs
Branch_fork_resolved(raw, refs, ref) == Resolve(refs, Generic_fork(raw, ref))


(***************************************************************************)
(* The branch accessors: configurations of the branch feature/x.           *)
(***************************************************************************)
\* the lines git config --list may print, in the order it prints them
BranchCfgUniverse == <<
    "branch.feature/x.jflow.version=1",
    "branch.feature/x.jflow.version=2",
    "branch.feature/x.jflow.upstream=develop",
    "branch.feature/x.jflow.upstream=release",
    "branch.feature/x.jflow.fork=",
    "branch.feature/x.jflow.fork=green",
    "branch.feature/x.jflow.public=feature/x_pub",
    "branch.feature/x.jflow.remote=review/x",
    "branch.feature/x.jflow.debug=debug/x",
    "branch.feature/x.jflow.ldebug=ldebug/x",
    "branch.feature/x.jflow.tested=green",
    "branch.feature/x.jflow.sync=true",
    "branch.feature/x.jflow.remote-name=gerrit",
    "branch.feature/x.merge=refs/heads/develop",
    "branch.feature/x.merge=refs/tags/v1",
    "branch.feature/x.remote=origin",
    "branch.feature/x.remote=.",
    "branch.feature/x.stgit.stackformatversion=2",
    "jflow.autosync=true",
    "jflow.default-green=master",
    "jflow.default-green=develop",
    "jflow.remote=mirror",
    "jflow.template.feature/.upstream=develop"
>>

\* the references of the repository the accessors are read in
BranchShowRefs == {
    <<Ref("refs/heads/develop", "c1"), Ref("refs/heads/feature/x", "c2")>>,
    <<Ref("refs/heads/develop", "c1"), Ref("refs/heads/feature/x", "c2"),
      Ref("refs/heads/refs/heads/develop", "c3")>>
}

\* the branch an accessor is read of
ArgBranches == {"refs/heads/feature/x"}

\* the sub-sequences of at most n elements of universe[from..]
RECURSIVE SubSeqsFrom(_, _, _)
SubSeqsFrom(universe, from, n) ==
    IF n = 0 THEN {<<>>}
    ELSE {<<>>} \cup UNION {
        {<<universe[i]>> \o rest : rest \in SubSeqsFrom(universe, i + 1, n - 1)}
        : i \in from..Len(universe)}

SubSeqsUpTo(universe, n) == SubSeqsFrom(universe, 1, n)

NoCall == [op |-> "none"]

\* a command is one process: it makes its call on a fresh Cache and exits
Idle == call.op = "none"

InitBranch ==
    /\ gitconfig \in SubSeqsUpTo(BranchCfgUniverse, MaxCfgLines)
    /\ show_ref \in BranchShowRefs
    /\ head_sha = "c2"
    /\ rev_list = <<>>
    /\ Fresh
    /\ call = NoCall

ReadUpstream ==
    \E ref \in ArgBranches :
        /\ Idle
        /\ call' = [op |-> "upstream", ref |-> ref, ret |-> Generic_upstream(Config, ref)]
        /\ UNCHANGED world

ReadFork ==
    \E ref \in ArgBranches :
        /\ Idle
        /\ call' = [op |-> "fork", ref |-> ref, ret |-> Generic_fork(Config, ref)]
        /\ UNCHANGED world

ReadPublic ==
    \E ref \in ArgBranches :
        /\ Idle
        /\ call' = [op |-> "public", ref |-> ref, ret |-> Generic_public(Config, ref)]
        /\ UNCHANGED world

ReadReview ==
    \E ref \in ArgBranches :
        /\ Idle
        /\ call' = [op |-> "review", ref |-> ref, ret |-> Generic_review(Config, ref)]
        /\ UNCHANGED world

ReadDebug ==
    \E ref \in ArgBranches :
        /\ Idle
        /\ call' = [op |-> "debug", ref |-> ref, ret |-> Generic_debug(Config, ref)]
        /\ UNCHANGED world

ReadLdebug ==
    \E ref \in ArgBranches :
        /\ Idle
        /\ call' = [op |-> "ldebug", ref |-> ref, ret |-> Generic_ldebug(Config, ref)]
        /\ UNCHANGED world

ReadTested ==
    \E ref \in ArgBranches :
        /\ Idle
        /\ call' = [op |-> "tested", ref |-> ref, ret |-> Generic_tested(Config, ref)]
        /\ UNCHANGED world

ReadSync ==
    \E ref \in ArgBranches :
        /\ Idle
        /\ call' = [op |-> "sync", ref |-> ref, ret |-> Generic_sync(Config, ref)]
        /\ UNCHANGED world

ReadUpstreamResolved ==
    \E ref \in ArgBranches :
        /\ Idle
        /\ call' = [op |-> "upstream_resolved", ref |-> ref,
                    ret |-> Branch_upstream_resolved(Config, Cache_refs(Cache_refs_list), ref)]
        /\ UNCHANGED world

\* the value of a Value field of the schema: jflow.remote (default origin),
\* branch.feature/x.jflow.upstream and branch.feature/x.merge (default '')
ReadValue ==
    /\ Idle
    /\ \E field \in {[path |-> JfCfg \o <<"remote">>, default |-> "origin"],
                     [path |-> JfBranchCfg("feature/x") \o <<"upstream">>, default |-> ""],
                     [path |-> GitBranchCfg("feature/x") \o <<"merge">>, default |-> ""]} :
           call' = [op |-> "Value", path |-> Path_path(field.path), default |-> field.default,
                    ret |-> ValueCfg_str(Config, field.path, field.default)]
    /\ UNCHANGED world

\* the value of a MaybeValue field: branch.feature/x.jflow.ldebug, .tested,
\* .remote-name
ReadMaybeValue ==
    /\ Idle
    /\ \E key \in {"ldebug", "tested", "remote-name"} :
           call' = [op |-> "MaybeValue",
                    path |-> Path_path(JfBranchCfg("feature/x") \o <<key>>),
                    ret |-> MaybeValueCfg_value(Config, JfBranchCfg("feature/x") \o <<key>>)]
    /\ UNCHANGED world

\* the value of the ListValue field jflow.default-green
ReadListValue ==
    /\ Idle
    /\ call' = [op |-> "ListValue", path |-> Path_path(JfCfg \o <<"default-green">>),
                ret |-> ListValueCfg_value(Config, JfCfg \o <<"default-green">>)]
    /\ UNCHANGED world

NextBranch ==
    \/ ReadValue
    \/ ReadMaybeValue
    \/ ReadListValue
    \/ ReadUpstream
    \/ ReadFork
    \/ ReadPublic
    \/ ReadReview
    \/ ReadDebug
    \/ ReadLdebug
    \/ ReadTested
    \/ ReadSync
    \/ ReadUpstreamResolved

SpecBranch == InitBranch /\ [][NextBranch]_vars


(***************************************************************************)
(* What git config printed, read off the lines themselves: the claims      *)
(* below are stated against these, not against the schema.                 *)
(***************************************************************************)
\* whether a line name=... was printed
Printed(name) == \E i \in 1..Len(gitconfig) : StartsWith(gitconfig[i], name \o "=")

\* the value of the first line name=... printed, "" when there is none
FirstPrinted(name) ==
    IF ~Printed(name) THEN ""
    ELSE LET i == CHOOSE k \in 1..Len(gitconfig) :
                      /\ StartsWith(gitconfig[k], name \o "=")
                      /\ \A j \in 1..(k - 1) : ~StartsWith(gitconfig[j], name \o "=")
         IN SubSeq(gitconfig[i], Len(name) + 2, Len(gitconfig[i]))

\* the setting branch.feature/x.jflow.<key> of the branch the calls are about
JfKey(key) == "branch.feature/x.jflow." \o key

\* the protocol version of feature/x as configured: "" (absent), "1", "2"
VersionPrinted == FirstPrinted(JfKey("version"))

\* the accessor op was read
Read(op) == call.op = op

C6_UnsupportedVersionError ==
    (call.op \in {"upstream", "fork", "public", "review", "debug", "ldebug"}
     /\ VersionPrinted \notin {"", "0", "1"})
        => call.ret = Raise("UnsupportedJflowVersionError")

(***************************************************************************)
(* C7, amended.  For a version-1 branch each relationship is built from    *)
(* the value at branch.feature/x.jflow.<key>: upstream, fork, public,      *)
(* ldebug (the debug value when ldebug is unset) and tested are            *)
(* refs/heads/<value>; review and debug are refs/remotes/<remote>/<value>; *)
(* and when refs/heads/<upstream value> is an existing head whose full     *)
(* name is not also an abbreviation of another ref, upstream_resolved is   *)
(* that head's Ref with its commit id; when the full name is also an       *)
(* abbreviation of another ref, upstream_resolved is None.                 *)
(***************************************************************************)
RemotePrinted ==
    IF FirstPrinted(JfKey("remote-name")) # "" THEN FirstPrinted(JfKey("remote-name"))
    ELSE "origin"

\* the ref of the repository named name, as a one-element or empty set
Existing(name) == {Cache_refs_list[i] : i \in {k \in 1..Len(Cache_refs_list) : Cache_refs_list[k].name = name}}

\* name is an abbreviation of a ref other than the one it names
AlsoAbbreviates(name) ==
    \E i \in 1..Len(Cache_refs_list) :
        /\ Cache_refs_list[i].name # name
        /\ \E k \in 1..Len(ref_abbrevs(Cache_refs_list[i].name)) :
               ref_abbrevs(Cache_refs_list[i].name)[k] = name

C7_Names ==
    VersionPrinted = "1" =>
        /\ Read("upstream") => call.ret = SomeRef("refs/heads/" \o FirstPrinted(JfKey("upstream")))
        /\ (Read("fork") /\ FirstPrinted(JfKey("fork")) # "")
               => call.ret = SomeRef("refs/heads/" \o FirstPrinted(JfKey("fork")))
        /\ (Read("public") /\ FirstPrinted(JfKey("public")) # "")
               => call.ret = SomeRef("refs/heads/" \o FirstPrinted(JfKey("public")))
        /\ (Read("ldebug") /\ FirstPrinted(JfKey("ldebug")) # "")
               => call.ret = SomeRef("refs/heads/" \o FirstPrinted(JfKey("ldebug")))
        /\ (Read("ldebug") /\ FirstPrinted(JfKey("ldebug")) = ""
                           /\ FirstPrinted(JfKey("debug")) # "")
               => call.ret = SomeRef("refs/heads/" \o FirstPrinted(JfKey("debug")))
        /\ (Read("review") /\ FirstPrinted(JfKey("remote")) # "")
               => call.ret = SomeRef("refs/remotes/" \o RemotePrinted \o "/"
                                     \o FirstPrinted(JfKey("remote")))
        /\ (Read("debug") /\ FirstPrinted(JfKey("debug")) # "")
               => call.ret = SomeRef("refs/remotes/" \o RemotePrinted \o "/"
                                     \o FirstPrinted(JfKey("debug")))

MergePrinted == FirstPrinted("branch.feature/x.merge")

C8_Version0Tracking ==
    VersionPrinted = "" =>
        /\ (Read("upstream")
            /\ (MergePrinted = "" \/ RefName_kind(MergePrinted) \notin {"head", "stgit", "remote"}))
               => call.ret = NoneRef
        /\ (Read("upstream")
            /\ MergePrinted # "" /\ RefName_kind(MergePrinted) \in {"head", "stgit", "remote"})
               => call.ret = SomeRef(for_branch(FirstPrinted("branch.feature/x.remote"),
                                                RefName_branch(MergePrinted)))
        /\ call.op \in {"public", "review", "debug", "ldebug"} => call.ret = NoneRef

C8_Witness ==
    /\ Read("upstream")
    /\ VersionPrinted = ""
    /\ MergePrinted = "refs/heads/develop"
    /\ FirstPrinted("branch.feature/x.remote") = "origin"
    /\ Printed(JfKey("upstream"))
    /\ call.ret = SomeRef("refs/remotes/origin/develop")

(***************************************************************************)
(* C9.  Whenever the fork of a branch is unset (always for version 0; for  *)
(* version 1 when branch.feature/x.jflow.fork is absent or empty),         *)
(* Branch.fork equals Branch.upstream; when it is set in version 1, fork   *)
(* is refs/heads/<fork value> whatever upstream is.                        *)
(***************************************************************************)
C9_ForkDefaultsToUpstream ==
    Read("fork") =>
        /\ VersionPrinted = "" => call.ret = Generic_upstream(Config, call.ref)
        /\ (VersionPrinted = "1" /\ FirstPrinted(JfKey("fork")) = "")
               => call.ret = Generic_upstream(Config, call.ref)
        /\ (VersionPrinted = "1" /\ FirstPrinted(JfKey("fork")) # "")
               => call.ret = SomeRef("refs/heads/" \o FirstPrinted(JfKey("fork")))

C9_Witness ==
    /\ Read("fork")
    /\ VersionPrinted = "1"
    /\ Printed(JfKey("fork"))
    /\ FirstPrinted(JfKey("fork")) = ""
    /\ FirstPrinted(JfKey("upstream")) = "develop"
    /\ call.ret = SomeRef("refs/heads/develop")

(***************************************************************************)
(* C10.  As claimed: Branch.sync is true if branch.feature/x.jflow.sync is *)
(* set true, for version 0 and for version 1; otherwise it is true exactly *)
(* when jflow.autosync is set and the upstream of the branch is a          *)
(* remote-tracking ref; otherwise false.                                   *)
(***************************************************************************)
C10_SyncRule ==
    (Read("sync") /\ VersionPrinted \in {"", "1"})
        => call.ret =
               (\/ FirstPrinted(JfKey("sync")) = "true"
                \/ /\ FirstPrinted("jflow.autosync") = "true"
                   /\ Generic_upstream(Config, call.ref).tag = "RefName"
                   /\ RefName_kind(Generic_upstream(Config, call.ref).v) = "remote")

(***************************************************************************)
(* C20.  Typed reads over the multimap git config printed.  A Value is the *)
(* first value printed for its path, and its static default when none was  *)
(* printed; a MaybeValue is the first value printed, and absent when none  *)
(* was; a ListValue is every value printed for its path, in the order      *)
(* printed.  A key printed with several values reads as the first of them  *)
(* unless it is read as a list.                                            *)
(***************************************************************************)
\* the values printed for the name, in the order printed
AllPrinted(name) ==
    LET lines == SelectSeq(gitconfig, LAMBDA line : StartsWith(line, name \o "="))
    IN [i \in 1..Len(lines) |-> SubSeq(lines[i], Len(name) + 2, Len(lines[i]))]

C20_TypedReads ==
    /\ call.op = "Value"
           => call.ret = IF Printed(call.path) THEN AllPrinted(call.path)[1]
                         ELSE call.default
    /\ call.op = "MaybeValue"
           => call.ret = IF Printed(call.path) THEN SomeStr(AllPrinted(call.path)[1])
                         ELSE NoneStr
    /\ call.op = "ListValue" => call.ret = AllPrinted(call.path)

\* upstream is printed twice and read as a Value
C20_Witness ==
    /\ call.op = "Value"
    /\ call.path = "branch.feature/x.jflow.upstream"
    /\ AllPrinted(call.path) = <<"develop", "release">>
    /\ call.ret = "develop"

(***************************************************************************)
(* C24.  As claimed: the remote of a branch is its                         *)
(* branch.<name>.jflow.remote-name if set, else the global jflow.remote if *)
(* set, else origin, and the review and debug refs of a version-1 branch   *)
(* are refs/remotes/<that remote>/<value>.                                 *)
(***************************************************************************)
ClaimedRemote ==
    IF FirstPrinted(JfKey("remote-name")) # "" THEN FirstPrinted(JfKey("remote-name"))
    ELSE IF FirstPrinted("jflow.remote") # "" THEN FirstPrinted("jflow.remote")
    ELSE "origin"

C24_RemoteCascade ==
    \A key \in {"review", "debug"} :
        LET value == FirstPrinted(JfKey(IF key = "review" THEN "remote" ELSE "debug"))
        IN (Read(key) /\ VersionPrinted = "1" /\ value # "")
               => call.ret = SomeRef("refs/remotes/" \o ClaimedRemote \o "/" \o value)


(***************************************************************************)
(* branch.py, repo.py: the related refs of a branch and the branch map.    *)
(***************************************************************************)
\* Generic.gen_related_refs, were the public ref yielded without comparing it
\* with the branch's own ref
Generic_gen_related_refs_own_public(raw, ref) ==
    LET public == Generic_public(raw, ref)
        ldebug == Generic_ldebug(raw, ref)
        stgit == Generic_stgit(raw, ref)
    IN IF public.tag = "raise" THEN [tag |-> "raise", v |-> public.v, refs |-> <<>>]
       ELSE IF ldebug.tag = "raise" THEN [tag |-> "raise", v |-> ldebug.v, refs |-> <<>>]
       ELSE [tag |-> "ok", v |-> "",
             refs |-> (IF RefTruthy(public) THEN <<public.v>> ELSE <<>>)
                      \o (IF RefTruthy(ldebug) /\ ldebug.v # ref THEN <<ldebug.v>> ELSE <<>>)
                      \o (IF RefTruthy(stgit) THEN <<stgit.v>> ELSE <<>>)]

\* Generic.gen_related_refs: the refs yielded, or the exception of an accessor
Generic_gen_related_refs(raw, ref) ==
    LET public == Generic_public(raw, ref)
        ldebug == Generic_ldebug(raw, ref)
        stgit == Generic_stgit(raw, ref)
    IN IF public.tag = "raise" THEN [tag |-> "raise", v |-> public.v, refs |-> <<>>]
       ELSE IF ldebug.tag = "raise" THEN [tag |-> "raise", v |-> ldebug.v, refs |-> <<>>]
       ELSE [tag |-> "ok", v |-> "",
             refs |-> (IF RefTruthy(public) /\ public.v # ref THEN <<public.v>> ELSE <<>>)
                      \o (IF RefTruthy(ldebug) /\ ldebug.v # ref THEN <<ldebug.v>> ELSE <<>>)
                      \o (IF RefTruthy(stgit) THEN <<stgit.v>> ELSE <<>>)]

\* the elements of a sequence
Range(seq) == {seq[i] : i \in 1..Len(seq)}

\* all_heads of Cache.branch_by_ref: the names of the head-kind refs, in order
AllHeads(refs_list) ==
    LET heads == SelectSeq(refs_list, LAMBDA r : RefName_kind(r.name) = "head")
    IN [i \in 1..Len(heads) |-> heads[i].name]

\* the second loop of Cache.branch_by_ref: pop what each head of all_heads yields
RECURSIVE PopRelated(_, _, _, _)
PopRelated(raw, all_heads, i, branch_refs) ==
    IF i > Len(all_heads) THEN [tag |-> "ok", v |-> "", keys |-> branch_refs]
    ELSE LET related == Generic_gen_related_refs(raw, all_heads[i])
         IN IF related.tag = "raise" THEN [tag |-> "raise", v |-> related.v, keys |-> <<>>]
            ELSE PopRelated(raw, all_heads, i + 1,
                     SelectSeq(branch_refs, LAMBDA k : k \notin Range(related.refs)))

\* Cache.branch_by_ref, were only the heads still in the map asked for their
\* related refs
RECURSIVE PopRelatedOfKeys(_, _, _, _)
PopRelatedOfKeys(raw, all_heads, i, branch_refs) ==
    IF i > Len(all_heads) THEN [tag |-> "ok", v |-> "", keys |-> branch_refs]
    ELSE LET related == Generic_gen_related_refs(raw, all_heads[i])
         IN IF related.tag = "raise" THEN [tag |-> "raise", v |-> related.v, keys |-> <<>>]
            ELSE IF all_heads[i] \notin Range(branch_refs)
            THEN PopRelatedOfKeys(raw, all_heads, i + 1, branch_refs)
            ELSE PopRelatedOfKeys(raw, all_heads, i + 1,
                     SelectSeq(branch_refs, LAMBDA k : k \notin Range(related.refs)))

Cache_branch_by_ref_keys_only(raw, refs_list) ==
    PopRelatedOfKeys(raw, AllHeads(refs_list), 1, AllHeads(refs_list))

\* Cache.branch_by_ref, were the owned refs left in the map
Cache_branch_by_ref_no_pop(raw, refs_list) ==
    IF \E i \in 1..Len(AllHeads(refs_list)) :
           Generic_gen_related_refs(raw, AllHeads(refs_list)[i]).tag = "raise"
    THEN [tag |-> "raise", v |-> "TypeError", keys |-> <<>>]
    ELSE [tag |-> "ok", v |-> "", keys |-> AllHeads(refs_list)]

\* Cache.branch_by_ref: the keys of the map, in order (the entry of key k is
\* Branch(gc, k)), or the exception
Cache_branch_by_ref(raw, refs_list) ==
    PopRelated(raw, AllHeads(refs_list), 1, AllHeads(refs_list))

(***************************************************************************)
(* SpecOwn: a command builds the branch map of a repository with the heads *)
(* a, b, c and the configuration git config prints.                        *)
(***************************************************************************)
MaxOwnCfgLines == 4

OwnCfgUniverse == <<
    "branch.a.jflow.version=1",
    "branch.a.jflow.version=2",
    "branch.a.jflow.public=b",
    "branch.a.jflow.public=a",
    "branch.a.jflow.upstream=c",
    "branch.a.stgit.stackformatversion=2",
    "branch.b.jflow.version=1",
    "branch.b.jflow.public=c",
    "branch.b.jflow.ldebug=a",
    "branch.b.jflow.debug=c",
    "branch.c.jflow.version=1",
    "branch.c.jflow.ldebug=zz"
>>

OwnShowRefs == {
    <<Ref("refs/heads/a", "c1"), Ref("refs/heads/b", "c2"), Ref("refs/heads/c", "c3")>>,
    <<Ref("refs/heads/a", "c1"), Ref("refs/heads/a.stgit", "c4"),
      Ref("refs/heads/b", "c2"), Ref("refs/remotes/origin/c", "c3")>>
}

InitOwn ==
    /\ gitconfig \in SubSeqsUpTo(OwnCfgUniverse, MaxOwnCfgLines)
    /\ show_ref \in OwnShowRefs
    /\ head_sha = "c1"
    /\ rev_list = <<>>
    /\ Fresh
    /\ call = NoCall

BranchByRef ==
    /\ Idle
    /\ call' = [op |-> "branch_by_ref", ret |-> Cache_branch_by_ref(Config, Cache_refs_list)]
    /\ UNCHANGED world

RelatedRefs ==
    /\ Idle
    /\ \E ref \in Range(AllHeads(Cache_refs_list)) :
           call' = [op |-> "gen_related_refs", ref |-> ref,
                    ret |-> Generic_gen_related_refs(Config, ref)]
    /\ UNCHANGED world

NextOwn ==
    \/ BranchByRef
    \/ RelatedRefs

SpecOwn == InitOwn /\ [][NextOwn]_vars

(***************************************************************************)
(* C1.  Ownership invariant of Cache.branch_by_ref: whatever refs and      *)
(* config the map is built from, no key of the map is among the refs       *)
(* gen_related_refs() yields for a different entry of the map.             *)
(***************************************************************************)
C1_Ownership ==
    (call.op = "branch_by_ref" /\ call.ret.tag = "ok")
        => \A k \in Range(call.ret.keys) : \A e \in Range(call.ret.keys) :
               e # k => k \notin Range(Generic_gen_related_refs(Config, e).refs)

C1_Witness ==
    /\ call.op = "branch_by_ref"
    /\ call.ret.tag = "ok"
    /\ "refs/heads/a" \in Range(call.ret.keys)
    /\ "refs/heads/b" \in Range(AllHeads(Cache_refs_list))
    /\ "refs/heads/b" \in Range(Generic_gen_related_refs(Config, "refs/heads/a").refs)
    /\ "refs/heads/b" \notin Range(call.ret.keys)

(***************************************************************************)
(* C11.  gen_related_refs() of a branch whose protocol version is          *)
(* supported (absent or 1) yields exactly, in this order: the public ref   *)
(* refs/heads/<public> when public is set and it is not the branch's own   *)
(* head; the local-debug ref refs/heads/<ldebug, else debug> when set and  *)
(* not the own head; the own head name + ".stgit" exactly when the branch  *)
(* is stack-managed.  Nothing else is yielded, whatever upstream, fork,    *)
(* review, debug or tested are.                                            *)
(***************************************************************************)
\* the first value printed for branch.<b>.<key>
OwnPrinted(b, key) == FirstPrinted("branch." \o b \o "." \o key)

\* refs/heads/<value> unless the value is empty or names the branch itself
OwnOther(b, value) ==
    IF value = "" \/ value = b THEN <<>> ELSE <<"refs/heads/" \o value>>

\* what the claim says the branch b yields
ClaimedRelated(b) ==
    LET v1 == OwnPrinted(b, "jflow.version") = "1"
        ldebug == IF OwnPrinted(b, "jflow.ldebug") # "" THEN OwnPrinted(b, "jflow.ldebug")
                  ELSE OwnPrinted(b, "jflow.debug")
    IN (IF v1 THEN OwnOther(b, OwnPrinted(b, "jflow.public")) ELSE <<>>)
       \o (IF v1 THEN OwnOther(b, ldebug) ELSE <<>>)
       \o (IF OwnPrinted(b, "stgit.stackformatversion") \notin {"", "0"}
           THEN <<"refs/heads/" \o b \o ".stgit">> ELSE <<>>)

C11_RelatedRefsExactly ==
    \A b \in {"a", "b", "c"} :
        (call.op = "gen_related_refs" /\ call.ref = "refs/heads/" \o b
         /\ OwnPrinted(b, "jflow.version") \in {"", "1"})
            => call.ret = [tag |-> "ok", v |-> "", refs |-> ClaimedRelated(b)]

C11_Witness ==
    /\ call.op = "gen_related_refs"
    /\ call.ref = "refs/heads/a"
    /\ OwnPrinted("a", "jflow.version") = "1"
    /\ OwnPrinted("a", "jflow.public") = "b"
    /\ OwnPrinted("a", "jflow.upstream") = "c"
    /\ OwnPrinted("a", "stgit.stackformatversion") = "2"
    /\ call.ret.refs = <<"refs/heads/b", "refs/heads/a.stgit">>

(***************************************************************************)
(* C28.  As claimed: no head is lost from the branch map without an owner  *)
(* in it: every head-kind ref is a key of branch_by_ref or is yielded by   *)
(* gen_related_refs() of a key of branch_by_ref.                           *)
(***************************************************************************)
C28_OwnerInMap ==
    (call.op = "branch_by_ref" /\ call.ret.tag = "ok")
        => \A h \in Range(AllHeads(Cache_refs_list)) :
               \/ h \in Range(call.ret.keys)
               \/ \E k \in Range(call.ret.keys) :
                      h \in Range(Generic_gen_related_refs(Config, k).refs)

(***************************************************************************)
(* C28, amended.  The keys of branch_by_ref are the head-kind refs that no *)
(* head-kind ref of the repository yields from gen_related_refs(), whether *)
(* the yielding head is itself a key or not: every head is a key or is     *)
(* yielded by some head, two heads that name each other are both absent,   *)
(* and a head owned by an owned head is absent as well.                    *)
(***************************************************************************)
C28_KeysAreUnownedHeads ==
    (call.op = "branch_by_ref" /\ call.ret.tag = "ok")
        => Range(call.ret.keys)
               = {h \in Range(AllHeads(Cache_refs_list)) :
                      \A e \in Range(AllHeads(Cache_refs_list)) :
                          h \notin Range(Generic_gen_related_refs(Config, e).refs)}

\* a owns b and b owns c: c is absent although its owner b is no key
C28_Witness ==
    /\ call.op = "branch_by_ref"
    /\ call.ret.tag = "ok"
    /\ Generic_gen_related_refs(Config, "refs/heads/a").refs = <<"refs/heads/b">>
    /\ Generic_gen_related_refs(Config, "refs/heads/b").refs = <<"refs/heads/c">>
    /\ "refs/heads/c" \in Range(AllHeads(Cache_refs_list))
    /\ call.ret.keys = <<"refs/heads/a">>


(***************************************************************************)
(* repo.py: Cache.resolve_shortcut.                                        *)
(***************************************************************************)
\* (r.branch, r.is_remote) < (q.branch, q.is_remote), as Python orders tuples
KeyLess(r, q) ==
    \/ StrLess(RefName_branch(r.name), RefName_branch(q.name))
    \/ /\ RefName_branch(r.name) = RefName_branch(q.name)
       /\ ~RefName_is_remote(r.name)
       /\ RefName_is_remote(q.name)

\* max(matches, key=...): the first of the maximal elements
RECURSIVE MaxByKey(_, _, _)
MaxByKey(matches, i, best) ==
    IF i > Len(matches) THEN best
    ELSE MaxByKey(matches, i + 1, IF KeyLess(best, matches[i]) THEN matches[i] ELSE best)

\* the loop of Cache.resolve_shortcut from refs_list[i] on
RECURSIVE resolve_shortcut_loop(_, _, _, _)
resolve_shortcut_loop(refs_list, i, shortcut, matches) ==
    IF i > Len(refs_list)
    THEN (IF matches = <<>> THEN NoneResolved
          ELSE SomeResolved(MaxByKey(matches, 2, matches[1])))
    ELSE LET r == refs_list[i]
         IN IF RefName_branch(r.name) = ""
            THEN resolve_shortcut_loop(refs_list, i + 1, shortcut, matches)
            ELSE IF RefName_branch(r.name) = shortcut THEN SomeResolved(r)
            ELSE IF StartsWith(RefName_branch(r.name), shortcut \o "/")
            THEN resolve_shortcut_loop(refs_list, i + 1, shortcut, Append(matches, r))
            ELSE resolve_shortcut_loop(refs_list, i + 1, shortcut, matches)

\* Cache.resolve_shortcut, were a ref named exactly as the shortcut collected
\* with the prefix matches instead of returned at once
Cache_resolve_shortcut_no_return(refs_list, shortcut) ==
    LET matches == SelectSeq(refs_list,
                       LAMBDA r : \/ RefName_branch(r.name) = shortcut
                                  \/ StartsWith(RefName_branch(r.name), shortcut \o "/"))
    IN IF matches = <<>> \/ shortcut = "" THEN resolve_shortcut_loop(refs_list, 1, shortcut, <<>>)
       ELSE SomeResolved(MaxByKey(matches, 2, matches[1]))

\* Cache.resolve_shortcut, were it to return the first prefix match
RECURSIVE Cache_resolve_shortcut_first(_, _)
Cache_resolve_shortcut_first(refs_list, shortcut) ==
    IF refs_list = <<>> THEN NoneResolved
    ELSE IF RefName_branch(Head(refs_list).name) = shortcut
            \/ StartsWith(RefName_branch(Head(refs_list).name), shortcut \o "/")
    THEN SomeResolved(Head(refs_list))
    ELSE Cache_resolve_shortcut_first(Tail(refs_list), shortcut)

Cache_resolve_shortcut(refs_list, shortcut) ==
    resolve_shortcut_loop(refs_list, 1, shortcut, <<>>)

(***************************************************************************)
(* SpecRefs: a command resolves a shortcut in a repository whose refs      *)
(* show-ref lists, sorted by name as git prints them.                      *)
(***************************************************************************)
MaxRefs == 4

RefsUniverse == <<
    Ref("refs/heads/release", "c1"),
    Ref("refs/heads/release/1.0", "c2"),
    Ref("refs/heads/release/2.0", "c3"),
    Ref("refs/heads/release/2.0.stgit", "c3"),
    Ref("refs/heads/release2", "c4"),
    Ref("refs/notes/commits", "c8"),
    Ref("refs/patches/release/fix", "c3"),
    Ref("refs/patches/release/fix.log", "c9"),
    Ref("refs/remotes/origin/feature/x", "c2"),
    Ref("refs/remotes/origin/release", "c1"),
    Ref("refs/remotes/origin/release/2.0", "c5"),
    Ref("refs/remotes/upstream/release/2.0", "c6"),
    Ref("refs/tags/release", "c7"),
    Ref("refs/tags/release/9.0", "c6")
>>

Shortcuts == {"release", "rel", "release/2.0"}

InitRefs ==
    /\ gitconfig = <<>>
    /\ show_ref \in SubSeqsUpTo(RefsUniverse, MaxRefs)
    /\ head_sha = "c1"
    /\ rev_list = <<>>
    /\ Fresh
    /\ call = NoCall

ResolveShortcut ==
    \E shortcut \in Shortcuts :
        /\ Idle
        /\ call' = [op |-> "resolve_shortcut", text |-> shortcut,
                    ret |-> Cache_resolve_shortcut(Cache_refs_list, shortcut)]
        /\ UNCHANGED world

\* the names a command looks up
LookupNames ==
    {"release", "origin/release", "heads/release", "refs/tags/release", "release/9.0",
     "release/2.0", "HEAD", "nosuch"}

\* a lookup in the map Cache.refs, as the <attr>_resolved properties do it
RefsLookup ==
    /\ Idle
    /\ \E name \in LookupNames :
           call' = [op |-> "refs.get", text |-> name,
                    ret |-> Resolve(Cache_refs(Cache_refs_list), SomeRef(name))]
    /\ UNCHANGED world

GetRef ==
    /\ Idle
    /\ \E name \in LookupNames :
           call' = [op |-> "get_ref", text |-> name,
                    ret |-> Cache_get_ref(Cache_refs_list, name)]
    /\ UNCHANGED world

\* RefName.kind of the name of a ref of the repository
Classify ==
    /\ Idle
    /\ \E r \in Range(Cache_refs_list) :
           call' = [op |-> "kind", text |-> r.name, ret |-> RefName_kind(r.name)]
    /\ UNCHANGED world

\* ref_abbrevs of the name of a ref of the repository
RefAbbrevs ==
    /\ Idle
    /\ \E r \in Range(Cache_refs_list) :
           call' = [op |-> "ref_abbrevs", text |-> r.name, ret |-> ref_abbrevs(r.name)]
    /\ UNCHANGED world

\* RefName.for_branch(remote, branch_name) and the branch and kind of the name
\* it builds, for the branch names of the repository
ForBranch ==
    /\ Idle
    /\ \E remote \in {REMOTE_LOCAL, REMOTE_ORIGIN, "up/stream"} :
       \E r \in Range(Cache_refs_list) :
           /\ RefName_branch(r.name) # ""
           /\ LET name == for_branch(remote, RefName_branch(r.name))
              IN call' = [op |-> "for_branch", remote |-> remote,
                          branch_name |-> RefName_branch(r.name), ret |-> name,
                          branch |-> RefName_branch(name), kind |-> RefName_kind(name)]
    /\ UNCHANGED world

NextRefs ==
    \/ ResolveShortcut
    \/ RefsLookup
    \/ GetRef
    \/ Classify
    \/ RefAbbrevs
    \/ ForBranch

SpecRefs == InitRefs /\ [][NextRefs]_vars

(***************************************************************************)
(* C4.  Cache.resolve_shortcut(text): if some ref has branch name text, a  *)
(* ref with that branch name is returned whatever the prefix matches;      *)
(* otherwise the result is, among the refs whose branch name starts with   *)
(* text + "/", one maximal by (branch name, is remote-tracking); with no   *)
(* exact and no prefix match the result is None.                           *)
(***************************************************************************)
ExactMatches(text) == {r \in Range(Cache_refs_list) : RefName_branch(r.name) = text}

PrefixMatches(text) ==
    {r \in Range(Cache_refs_list) : StartsWith(RefName_branch(r.name), text \o "/")}

C4_ResolveShortcut ==
    call.op = "resolve_shortcut" =>
        /\ ExactMatches(call.text) # {}
               => \E r \in ExactMatches(call.text) : call.ret = SomeResolved(r)
        /\ (ExactMatches(call.text) = {} /\ PrefixMatches(call.text) # {})
               => \E r \in PrefixMatches(call.text) :
                      /\ call.ret = SomeResolved(r)
                      /\ \A q \in PrefixMatches(call.text) : ~KeyLess(r, q)
        /\ (ExactMatches(call.text) = {} /\ PrefixMatches(call.text) = {})
               => call.ret = NoneResolved

C4_Witness ==
    /\ call.op = "resolve_shortcut"
    /\ call.text = "release"
    /\ {r.name : r \in Range(Cache_refs_list)}
           = {"HEAD", "refs/heads/release/1.0", "refs/heads/release/2.0", "refs/heads/release2"}
    /\ call.ret = [tag |-> "Ref", v |-> "refs/heads/release/2.0", sha |-> "c3"]

(***************************************************************************)
(* C29.  resolve_shortcut never returns a stack-metadata ref: when the     *)
(* head refs/heads/release/2.0 is listed together with its metadata ref    *)
(* refs/heads/release/2.0.stgit, resolve_shortcut("release") returns a     *)
(* head or remote-tracking ref, never a ref of kind stgit.                 *)
(***************************************************************************)
C29_NeverStackMetadata ==
    (/\ call.op = "resolve_shortcut"
     /\ call.text = "release"
     /\ {"refs/heads/release/2.0", "refs/heads/release/2.0.stgit"}
            \subseteq {r.name : r \in Range(Cache_refs_list)}
     /\ call.ret # NoneResolved)
        => RefName_kind(call.ret.v) \in {"head", "remote"}

(***************************************************************************)
(* C30.  resolve_shortcut is deterministic in the set of refs: whatever    *)
(* order the same refs are enumerated in, the ref returned for a shortcut  *)
(* is the one returned for the order the repository lists them in.         *)
(***************************************************************************)
\* the largest number of listed refs whose orders are enumerated
MaxReorder == 3

\* the enumerations of the refs of the repository: HEAD, which gen_refs yields
\* first, then the listed refs in every order
Reorderings ==
    IF Len(Cache_refs_list) > MaxReorder + 1 THEN {Cache_refs_list}
    ELSE {<<Head(Cache_refs_list)>> \o [i \in 1..Len(Cache_refs_list) - 1 |-> Cache_refs_list[p[i] + 1]] :
              p \in Permutations(1..Len(Cache_refs_list) - 1)}

Before(refs_list, r, q) ==
    \E i, j \in 1..Len(refs_list) : i < j /\ refs_list[i] = r /\ refs_list[j] = q

Abbreviated(k) == {r \in Range(Cache_refs_list) : k \in Range(ref_abbrevs(r.name))}

C15_KindTotal ==
    call.op = "kind" =>
        LET n == call.text
        IN /\ call.ret \in {"head", "stgit", "tag", "remote", "patch", "patch_log", "unknown"}
           /\ StartsWith(n, "refs/heads/")
                  => call.ret = IF EndsWith(n, ".stgit") THEN "stgit" ELSE "head"
           /\ StartsWith(n, "refs/tags/") => call.ret = "tag"
           /\ StartsWith(n, "refs/remotes/") => call.ret = "remote"
           /\ StartsWith(n, "refs/patches/")
                  => call.ret = IF EndsWith(n, ".log") THEN "patch_log" ELSE "patch"
           /\ (\A p \in {"refs/heads/", "refs/tags/", "refs/remotes/", "refs/patches/"} :
                   ~StartsWith(n, p))
                  => call.ret = "unknown"

C15_Witness ==
    /\ call.op = "kind"
    /\ call.text = "refs/patches/release/fix.log"
    /\ call.ret = "patch_log"

(***************************************************************************)
(* C16.  As claimed: the abbreviations of a name contain its short form    *)
(* and every suffix of the short form that starts after one of its "/":    *)
(* refs/remotes/origin/feature/x yields origin/feature/x, feature/x and x. *)
(***************************************************************************)
\* s and what is left of s after stripping leading path segments
RECURSIVE SegmentSuffixes(_)
SegmentSuffixes(s) ==
    IF Find(s, "/") < 0 THEN {s}
    ELSE {s} \cup SegmentSuffixes(SubSeq(s, Find(s, "/") + 2, Len(s)))

C16_AbbrevsStripSegments ==
    call.op = "ref_abbrevs"
        => SegmentSuffixes(RefName_short(call.text)) \subseteq Range(call.ret)

(***************************************************************************)
(* C16, amended.  The abbreviations of a name are the name itself, the     *)
(* name without its leading refs/, and its short form (the name without    *)
(* refs/heads/, refs/tags/ or refs/remotes/, else without refs/), and      *)
(* nothing else: only segments of the matched prefix are stripped.         *)
(* refs/remotes/origin/feature/x yields itself,                            *)
(* remotes/origin/feature/x and origin/feature/x.                          *)
(***************************************************************************)
C16_AbbrevsStripPrefixOnly ==
    call.op = "ref_abbrevs" =>
        LET n == call.text
        IN /\ RefName_short(n) \in Range(call.ret)
           /\ Range(call.ret)
                  = {n, RefName_short(n)}
                    \cup (IF StartsWith(n, "refs/") THEN {SubSeq(n, 6, Len(n))} ELSE {})
           /\ n = "refs/remotes/origin/feature/x"
                  => call.ret = <<"refs/remotes/origin/feature/x",
                                  "remotes/origin/feature/x", "origin/feature/x">>

C16_Witness ==
    /\ call.op = "ref_abbrevs"
    /\ call.text = "refs/remotes/origin/feature/x"
    /\ "origin/feature/x" \in Range(call.ret)
    /\ "feature/x" \notin Range(call.ret)

(***************************************************************************)
(* C17.  As claimed: for every remote, the local "." or any other, and     *)
(* every non-empty branch name b, for_branch(remote, b).branch = b.        *)
(***************************************************************************)
C17_ForBranchRoundTrip ==
    call.op = "for_branch" => call.branch = call.branch_name

(***************************************************************************)
(* C17, amended.  for_branch(remote, b).branch = b for the local remote    *)
(* "." and for every remote whose name has no "/"; for a remote r1/r2 the  *)
(* branch read back is r2/b.                                               *)
(***************************************************************************)
C17_RoundTripSlashFreeRemote ==
    call.op = "for_branch" =>
        /\ (call.remote = "." \/ Find(call.remote, "/") < 0)
               => call.branch = call.branch_name
        /\ call.remote = "up/stream" => call.branch = "stream/" \o call.branch_name

C17_Witness ==
    /\ call.op = "for_branch"
    /\ call.remote = "origin"
    /\ call.branch_name = "feature/x"
    /\ call.ret = "refs/remotes/origin/feature/x"
    /\ call.branch = "feature/x"

(***************************************************************************)
(* C18.  As claimed: for every non-empty branch name b, for_branch(".", b) *)
(* has kind head.                                                          *)
(***************************************************************************)
C18_LocalIsHead ==
    (call.op = "for_branch" /\ call.remote = ".") => call.kind = "head"

(***************************************************************************)
(* C18, amended.  for_branch(".", b) has kind head for every non-empty b   *)
(* that does not end with .stgit, and kind stgit for one that does.        *)
(***************************************************************************)
C18_LocalIsHeadUnlessStgit ==
    (call.op = "for_branch" /\ call.remote = ".")
        => call.kind = IF EndsWith(call.branch_name, ".stgit") THEN "stgit" ELSE "head"

C18_Witness ==
    /\ call.op = "for_branch"
    /\ call.remote = "."
    /\ call.branch_name = "release/2.0"
    /\ call.ret = "refs/heads/release/2.0"
    /\ call.kind = "head"


(***************************************************************************)
(* repo.py: Cache.commits, the commit graph read from git rev-list.        *)
(***************************************************************************)
\* str.split(sep)
RECURSIVE Split(_, _)
Split(s, sep) ==
    LET i == Find(s, sep)
    IN IF i < 0 THEN <<s>>
       ELSE <<SubSeq(s, 1, i)>> \o Split(SubSeq(s, i + Len(sep) + 1, Len(s)), sep)

\* str.strip() of the blanks
RECURSIVE Strip(_)
Strip(s) ==
    IF StartsWith(s, " ") THEN Strip(SubSeq(s, 2, Len(s)))
    ELSE IF EndsWith(s, " ") THEN Strip(SubSeq(s, 1, Len(s) - 1))
    ELSE s

TAG_P == "tag: "

\* git.Commit(sha)
Commit(sha) == [sha |-> sha, parents |-> <<>>, children |-> <<>>, refs |-> <<>>]

\* the position of the commit sha in the dict commits, 0 when it is no key
CommitIndex(commits, sha) ==
    IF \E i \in 1..Len(commits) : commits[i].sha = sha
    THEN CHOOSE i \in 1..Len(commits) : commits[i].sha = sha
    ELSE 0

\* the refs branch of Cache.commits: the names of the decorations refs knows
RECURSIVE DecorationRefs(_, _)
DecorationRefs(decorations, refs) ==
    IF decorations = <<>> THEN <<>>
    ELSE LET r == Head(decorations)
             parts == Partition(r, " -> ")
             rr0 == IF parts[3] # "" THEN parts[3] ELSE parts[1]
             rr == IF StartsWith(rr0, TAG_P)
                   THEN TAG_PREFIX \o SubSeq(r, Len(TAG_P) + 1, Len(r))
                   ELSE rr0
         IN (IF rr \in DOMAIN refs THEN <<refs[rr].name>> ELSE <<>>)
            \o DecorationRefs(Tail(decorations), refs)

\* the first loop of Cache.commits from lines[i] on; cur is the position of
\* the commit being read, 0 before the first one
RECURSIVE parse_rev_list(_, _, _, _, _)
parse_rev_list(lines, i, refs, commits, cur) ==
    IF i > Len(lines) THEN [tag |-> "ok", exc |-> "", commits |-> commits]
    ELSE LET parts == Partition(lines[i], " ")
             key == parts[1]
             value == parts[3]
         IN IF value = "" THEN parse_rev_list(lines, i + 1, refs, commits, cur)
            ELSE IF key = "commit"
            THEN LET sha == Strip(value)
                     at == CommitIndex(commits, sha)
                 IN IF at = 0
                    THEN parse_rev_list(lines, i + 1, refs,
                             Append(commits, Commit(sha)), Len(commits) + 1)
                    ELSE parse_rev_list(lines, i + 1, refs,
                             [commits EXCEPT ![at] = Commit(sha)], at)
            ELSE IF key = "parents"
            THEN (IF cur = 0 THEN [tag |-> "raise", exc |-> "Error", commits |-> <<>>]
                  ELSE parse_rev_list(lines, i + 1, refs,
                           [commits EXCEPT ![cur].parents = Split(value, " ")], cur))
            ELSE IF key = "refs"
            THEN (IF cur = 0 THEN [tag |-> "raise", exc |-> "Error", commits |-> <<>>]
                  ELSE parse_rev_list(lines, i + 1, refs,
                           [commits EXCEPT
                               ![cur].refs = DecorationRefs(Split(value, ", "), refs)],
                           cur))
            ELSE parse_rev_list(lines, i + 1, refs, commits, cur)

\* the shas the second loop of Cache.commits appends to the children of the
\* commit parent_sha while it goes over commits[i..]
RECURSIVE ChildrenOf(_, _, _)
ChildrenOf(commits, parent_sha, i) ==
    IF i > Len(commits) THEN <<>>
    ELSE LET named == SelectSeq(commits[i].parents, LAMBDA p : p = parent_sha)
         IN [j \in 1..Len(named) |-> commits[i].sha]
            \o ChildrenOf(commits, parent_sha, i + 1)

\* the second loop of Cache.commits, were it to follow the first parent only
invert_first_parent(commits) ==
    [k \in 1..Len(commits) |->
        [commits[k] EXCEPT !.children =
            LET kids == SelectSeq(commits, LAMBDA c :
                            c.parents # <<>> /\ c.parents[1] = commits[k].sha)
            IN [j \in 1..Len(kids) |-> kids[j].sha]]]

\* the second loop of Cache.commits: every commit is appended to the children
\* of each of its parents
invert_parents(commits) ==
    [k \in 1..Len(commits) |->
        [commits[k] EXCEPT !.children = ChildrenOf(commits, commits[k].sha, 1)]]

\* Cache.commits, refs being self.refs: the dict in insertion order, or the
\* exception
Cache_commits(lines, refs) ==
    LET parsed == parse_rev_list(lines, 1, refs, <<>>, 0)
    IN IF parsed.tag = "raise" THEN parsed
       ELSE IF \E k \in 1..Len(parsed.commits) :
                   \E j \in 1..Len(parsed.commits[k].parents) :
                       CommitIndex(parsed.commits, parsed.commits[k].parents[j]) = 0
       THEN [tag |-> "raise", exc |-> "KeyError", commits |-> <<>>]
       ELSE [tag |-> "ok", exc |-> "", commits |-> invert_parents(parsed.commits)]


(***************************************************************************)
(* repo.py: Cache.is_merged_into.                                          *)
(***************************************************************************)
BoolResult(b) == [tag |-> "ok", val |-> b, exc |-> ""]

RaiseResult(exc) == [tag |-> "raise", val |-> FALSE, exc |-> exc]

\* the loop of is_merged_into over bdfs.dfs(start, exits): a depth-first walk
\* that yields every commit once; exits(c) is commits[c].children
RECURSIVE dfs(_, _, _, _)
dfs(stack, visited, commits, child_sha) ==
    IF stack = <<>> THEN BoolResult(FALSE)
    ELSE LET c == Head(stack)
         IN IF c \in visited THEN dfs(Tail(stack), visited, commits, child_sha)
            ELSE IF c = child_sha THEN BoolResult(TRUE)
            ELSE IF CommitIndex(commits, c) = 0 THEN RaiseResult("KeyError")
            ELSE dfs(commits[CommitIndex(commits, c)].children \o Tail(stack),
                     visited \cup {c}, commits, child_sha)

\* Cache.is_merged_into, commits being what self.commits gives
Cache_is_merged_into(commits, parent_sha, child_sha) ==
    IF parent_sha = "" \/ child_sha = "" THEN BoolResult(FALSE)
    ELSE IF commits.tag = "raise" THEN RaiseResult(commits.exc)
    ELSE dfs(<<parent_sha>>, {}, commits.commits, child_sha)

\* the Cache of a command: what its cached properties hold once read
Cache(lines, refs_list) ==
    LET refs == Cache_refs(refs_list)
    IN [refs_list |-> refs_list, refs |-> refs, commits |-> Cache_commits(lines, refs)]

(***************************************************************************)
(* SpecGraph: a command asks is_merged_into of two commits of a            *)
(* repository.  The history is any acyclic graph of up to MaxCommits       *)
(* commits with at most two parents each; every commit without children    *)
(* carries a head, the first commit carries the tag v1, and HEAD is the     *)
(* newest head.  rev-list prints the newest commit first.                   *)
(***************************************************************************)
MaxCommits == 4

DigitStr == <<"1", "2", "3", "4", "5", "6", "7", "8", "9">>

ShaOf(i) == "c" \o DigitStr[i]

\* the histories of n commits: dag[i] is the set of the parents of commit i
RECURSIVE DagsOf(_)
DagsOf(n) ==
    IF n = 0 THEN {<<>>}
    ELSE {Append(dag, ps) : dag \in DagsOf(n - 1),
                            ps \in {S \in SUBSET (1..(n - 1)) : Cardinality(S) <= 2}}

Tips(dag) == {i \in 1..Len(dag) : \A j \in 1..Len(dag) : i \notin dag[j]}

\* the elements of a set of numbers, ascending
RECURSIVE Ascending(_)
Ascending(S) ==
    IF S = {} THEN <<>>
    ELSE LET m == CHOOSE x \in S : \A y \in S : x <= y
         IN <<m>> \o Ascending(S \ {m})

\* what git show-ref prints for the history dag
ShowRefOf(dag) ==
    LET tips == Ascending(Tips(dag))
    IN [k \in 1..Len(tips) |-> Ref(HEAD_PREFIX \o "t" \o DigitStr[tips[k]], ShaOf(tips[k]))]
       \o <<Ref(TAG_PREFIX \o "v1", ShaOf(1))>>

\* the decorations rev-list prints for commit i of dag
DecorationsOf(dag, i) ==
    (IF i \in Tips(dag)
     THEN <<(IF i = Len(dag) THEN "HEAD -> " ELSE "") \o "t" \o DigitStr[i]>>
     ELSE <<>>)
    \o (IF i = 1 THEN <<"tag: v1">> ELSE <<>>)

\* what git rev-list --all --pretty=format:parents% P%nrefs% D prints for the
\* commits i, i - 1, ... 1 of dag, decorations[k] being those of commit k
RECURSIVE RevListOf(_, _, _)
RevListOf(dag, decorations, i) ==
    IF i = 0 THEN <<>>
    ELSE LET parents == Ascending(dag[i])
         IN << "commit " \o ShaOf(i),
               IF parents = <<>> THEN "parents"
               ELSE "parents " \o Join(" ", [k \in 1..Len(parents) |-> ShaOf(parents[k])]),
               IF decorations[i] = <<>> THEN "refs"
               ELSE "refs " \o Join(", ", decorations[i]) >>
            \o RevListOf(dag, decorations, i - 1)

InitGraph ==
    \E n \in 1..MaxCommits : \E dag \in DagsOf(n) :
        /\ gitconfig = <<>>
        /\ show_ref = ShowRefOf(dag)
        /\ head_sha = ShaOf(n)
        /\ rev_list = RevListOf(dag, [i \in 1..n |-> DecorationsOf(dag, i)], n)
        /\ Fresh
    /\ call = NoCall

\* the shas rev-list printed, and no sha
CommitArgs ==
    {""} \cup {SubSeq(rev_list[i], 8, Len(rev_list[i])) :
                  i \in {k \in 1..Len(rev_list) : StartsWith(rev_list[k], "commit ")}}

\* the arguments are shas of the repository, no sha, or the sha c0 of no
\* commit rev-list printed
IsMergedInto ==
    /\ Idle
    /\ LET gc == Cache(rev_list, Cache_refs_list)
       IN \E parent_sha \in CommitArgs \cup {"c0"}, child_sha \in CommitArgs \cup {"c0"} :
              call' = [op |-> "is_merged_into", parent_sha |-> parent_sha,
                       child_sha |-> child_sha,
                       ret |-> Cache_is_merged_into(gc.commits, parent_sha, child_sha)]
    /\ UNCHANGED world

ReadCommits ==
    /\ Idle
    /\ call' = [op |-> "commits", ret |-> Cache(rev_list, Cache_refs_list).commits]
    /\ UNCHANGED world

NextGraph ==
    \/ IsMergedInto
    \/ ReadCommits

SpecGraph == InitGraph /\ [][NextGraph]_vars

(***************************************************************************)
(* C2.  For all commits a and d of the commit graph, is_merged_into(a, d)  *)
(* is true exactly when d is reachable from a by zero or more child edges: *)
(* true of (x, x), true of every parent and its child, true along every    *)
(* chain of parents, and false otherwise.                                  *)
(***************************************************************************)
\* rev-list printed p among the parents of c
PrintedParent(p, c) ==
    \E i \in 1..(Len(rev_list) - 1) :
        /\ rev_list[i] = "commit " \o c
        /\ StartsWith(rev_list[i + 1], "parents ")
        /\ \/ EndsWith(rev_list[i + 1], " " \o p)
           \/ Find(rev_list[i + 1], " " \o p \o " ") >= 0

\* the commits reachable from those of S by child edges
RECURSIVE Descendants(_)
Descendants(S) ==
    LET more == S \cup {c \in CommitArgs \ {""} : \E p \in S : PrintedParent(p, c)}
    IN IF more = S THEN S ELSE Descendants(more)

C2_MergedIntoIsReachability ==
    (call.op = "is_merged_into"
     /\ call.parent_sha \in CommitArgs \ {""} /\ call.child_sha \in CommitArgs \ {""})
        => /\ call.ret = BoolResult(call.child_sha \in Descendants({call.parent_sha}))
           /\ call.parent_sha = call.child_sha => call.ret = BoolResult(TRUE)
           /\ PrintedParent(call.parent_sha, call.child_sha) => call.ret = BoolResult(TRUE)

C2_Witness ==
    /\ call.op = "is_merged_into"
    /\ call.parent_sha = "c1"
    /\ call.child_sha = "c4"
    /\ ~PrintedParent("c1", "c4")
    /\ PrintedParent("c1", "c2")
    /\ PrintedParent("c2", "c4")
    /\ PrintedParent("c3", "c4")
    /\ call.ret = BoolResult(TRUE)

(***************************************************************************)
(* C13.  As claimed: is_merged_into(ancestor_sha, descendant_sha) returns  *)
(* false, and raises nothing, whenever one of the two hashes is not a      *)
(* commit of the commit set: no sha at all, or a sha rev-list did not      *)
(* print.                                                                  *)
(***************************************************************************)
C13_AbsentHashIsFalse ==
    (call.op = "is_merged_into"
     /\ \/ call.parent_sha \notin CommitArgs \ {""}
        \/ call.child_sha \notin CommitArgs \ {""})
        => call.ret = BoolResult(FALSE)


(***************************************************************************)
(* cmd/list.py, cmd/delete.py: the merge status of a branch.               *)
(***************************************************************************)
StrResult(str) == [tag |-> "ok", val |-> str, exc |-> ""]

RaiseStr(exc) == [tag |-> "raise", val |-> "", exc |-> exc]

DEVELOP_REF == "develop"
MASTER_REF == "master"

\* Branch.sha: the sha of the Ref the branch was made of
Branch_sha(refs_list, ref) ==
    (CHOOSE r \in Range(refs_list) : r.name = ref).sha

\* self.gc.refs.get(name, None)
Refs_get(refs, name) ==
    IF name \in DOMAIN refs THEN SomeResolved(refs[name]) ELSE NoneResolved

\* ListLine.is_merged_into and Filter.is_merged_into:
\* bool(m and m.is_valid and gc.is_merged_into(b.sha, m.sha))
Line_is_merged_into(gc, ref, m) ==
    IF m.tag # "Ref" \/ m.v = "" THEN BoolResult(FALSE)
    ELSE IF m.sha = "" THEN BoolResult(FALSE)
    ELSE Cache_is_merged_into(gc.commits, Branch_sha(gc.refs_list, ref), m.sha)

\* ListLine.merged: the tests are made in the order U, D, F, M and the last
\* one that succeeds sets the letter
ListLine_merged(raw, gc, ref) ==
    LET upstream == Branch_upstream_resolved(raw, gc.refs, ref)
        fork == Branch_fork_resolved(raw, gc.refs, ref)
        develop_ref == Refs_get(gc.refs, DEVELOP_REF)
        master_ref == Refs_get(gc.refs, MASTER_REF)
        merged(m) == Line_is_merged_into(gc, ref, m)
        r1 == IF upstream.tag = "Ref" /\ merged(upstream).val THEN "U" ELSE "."
        r2 == IF ref # develop_ref.v /\ merged(develop_ref).val THEN "D" ELSE r1
        r3 == IF fork.tag = "Ref" /\ fork # upstream /\ merged(fork).val THEN "F" ELSE r2
        r4 == IF ref # master_ref.v /\ merged(master_ref).val THEN "M" ELSE r3
    IN IF upstream.tag = "raise" THEN RaiseStr(upstream.v)
       ELSE IF upstream.tag = "Ref" /\ merged(upstream).tag = "raise"
       THEN RaiseStr(merged(upstream).exc)
       ELSE IF ref # develop_ref.v /\ merged(develop_ref).tag = "raise"
       THEN RaiseStr(merged(develop_ref).exc)
       ELSE IF fork.tag = "raise" THEN RaiseStr(fork.v)
       ELSE IF fork.tag = "Ref" /\ fork # upstream /\ merged(fork).tag = "raise"
       THEN RaiseStr(merged(fork).exc)
       ELSE IF ref # master_ref.v /\ merged(master_ref).tag = "raise"
       THEN RaiseStr(merged(master_ref).exc)
       ELSE StrResult(r4)

\* sts of Filter.is_merge_status: the statuses the branch passes
Filter_sts(raw, gc, ref) ==
    LET all_stats == "MDFU"
        master_ref == Refs_get(gc.refs, "master")
        develop_ref == Refs_get(gc.refs, "develop")
        fork == Branch_fork_resolved(raw, gc.refs, ref)
        upstream == Branch_upstream_resolved(raw, gc.refs, ref)
        merged(m) == Line_is_merged_into(gc, ref, m)
    IN IF master_ref.tag = "Ref" /\ merged(master_ref).tag = "raise"
       THEN RaiseStr(merged(master_ref).exc)
       ELSE IF master_ref.tag = "Ref" /\ merged(master_ref).val THEN StrResult(all_stats)
       ELSE IF develop_ref.tag = "Ref" /\ merged(develop_ref).tag = "raise"
       THEN RaiseStr(merged(develop_ref).exc)
       ELSE IF develop_ref.tag = "Ref" /\ merged(develop_ref).val
       THEN StrResult(SubSeq(all_stats, 2, 4))
       ELSE IF fork.tag = "raise" THEN RaiseStr(fork.v)
       ELSE IF merged(fork).tag = "raise" THEN RaiseStr(merged(fork).exc)
       ELSE IF merged(fork).val THEN StrResult(SubSeq(all_stats, 3, 4))
       ELSE IF upstream.tag = "raise" THEN RaiseStr(upstream.v)
       ELSE IF merged(upstream).tag = "raise" THEN RaiseStr(merged(upstream).exc)
       ELSE IF merged(upstream).val THEN StrResult(SubSeq(all_stats, 4, 4))
       ELSE StrResult("")

\* Filter.is_merge_status, were only the branch's own status accepted
Filter_is_merge_status_exact(raw, gc, ref, status) ==
    LET sts == Filter_sts(raw, gc, ref)
    IN IF sts.tag = "raise" THEN RaiseResult(sts.exc)
       ELSE BoolResult(Find(sts.val, status) = 0)

\* Filter.is_merge_status(status): status in sts
Filter_is_merge_status(raw, gc, ref, status) ==
    LET sts == Filter_sts(raw, gc, ref)
    IN IF sts.tag = "raise" THEN RaiseResult(sts.exc)
       ELSE BoolResult(Find(sts.val, status) >= 0)

(***************************************************************************)
(* sync.py: Mixin.sync.  The result is the list of the commands            *)
(* git branch --force --no-track <name> <upstream> issued, and the         *)
(* exception that ended the command if one did.                            *)
(***************************************************************************)
RaiseSync(exc, issued) == [tag |-> "raise", issued |-> issued, exc |-> exc]

\* the loop over gc.branches.values() from branches[i] on; b.upstream is the
\* Ref the upstream name resolves to, whose sha and name the loop reads
RECURSIVE Mixin_sync(_, _, _, _, _)
Mixin_sync(raw, gc, branches, i, issued) ==
    IF i > Len(branches) THEN [tag |-> "ok", issued |-> issued, exc |-> ""]
    ELSE LET ref == branches[i]
             upstream == Branch_upstream_resolved(raw, gc.refs, ref)
             merged == Cache_is_merged_into(gc.commits, upstream.sha,
                                            Branch_sha(gc.refs_list, ref))
         IN IF ~Generic_sync(raw, ref) THEN Mixin_sync(raw, gc, branches, i + 1, issued)
            ELSE IF upstream.tag = "raise" THEN RaiseSync(upstream.v, issued)
            ELSE IF upstream.tag = "None" THEN Mixin_sync(raw, gc, branches, i + 1, issued)
            ELSE IF merged.tag = "raise" THEN RaiseSync(merged.exc, issued)
            ELSE IF merged.val THEN Mixin_sync(raw, gc, branches, i + 1, issued)
            ELSE Mixin_sync(raw, gc, branches, i + 1,
                            Append(issued, [name |-> Generic_name(ref), to |-> upstream.v]))

(***************************************************************************)
(* SpecMerge: jf list and jf delete --merged classify the branches of a    *)
(* repository with the heads develop, green, master and topic, any of the  *)
(* first three possibly missing, on a history of up to MaxMergeCommits     *)
(* commits; topic is checked out and carries one of the configurations.    *)
(***************************************************************************)
MaxMergeCommits == 2

MergeHeads == <<"develop", "green", "master", "topic">>

MergeCfgs == {
    <<>>,
    <<"branch.topic.jflow.version=1", "branch.topic.jflow.upstream=develop">>,
    <<"branch.topic.jflow.version=1", "branch.topic.jflow.upstream=develop",
      "branch.topic.jflow.fork=green">>,
    <<"branch.topic.jflow.version=1", "branch.topic.jflow.upstream=green",
      "branch.topic.jflow.fork=master">>,
    <<"branch.topic.remote=.", "branch.topic.merge=refs/heads/green">>,
    <<"branch.master.jflow.sync=true", "branch.master.merge=refs/heads/develop",
      "branch.master.remote=.", "branch.topic.jflow.sync=true",
      "branch.topic.merge=refs/heads/green", "branch.topic.remote=.">>
}

\* where the heads are: at[k] is the commit of MergeHeads[k], 0 without the
\* head; topic exists and every commit without children carries a head
PlacementsOf(dag) ==
    {at \in [1..Len(MergeHeads) -> 0..Len(dag)] :
        /\ at[4] # 0
        /\ \A i \in Tips(dag) : \E k \in 1..Len(MergeHeads) : at[k] = i}

MergeShowRefOf(at) ==
    LET present == SelectSeq([k \in 1..Len(MergeHeads) |-> k], LAMBDA k : at[k] # 0)
    IN [j \in 1..Len(present) |->
           Ref(HEAD_PREFIX \o MergeHeads[present[j]], ShaOf(at[present[j]]))]

MergeDecorationsOf(at, i) ==
    LET here == SelectSeq([k \in 1..Len(MergeHeads) |-> k], LAMBDA k : at[k] = i)
    IN [j \in 1..Len(here) |->
           (IF here[j] = 4 THEN "HEAD -> " ELSE "") \o MergeHeads[here[j]]]

InitMerge ==
    \E n \in 1..MaxMergeCommits : \E dag \in DagsOf(n) : \E at \in PlacementsOf(dag) :
        /\ gitconfig \in MergeCfgs
        /\ show_ref = MergeShowRefOf(at)
        /\ head_sha = ShaOf(at[4])
        /\ rev_list = RevListOf(dag, [i \in 1..n |-> MergeDecorationsOf(at, i)], n)
        /\ Fresh
    /\ call = NoCall

\* jf list makes a ListLine of every branch of gc.branches
ListMerged ==
    /\ Idle
    /\ LET raw == Config
           gc == Cache(rev_list, Cache_refs_list)
       IN \E ref \in Range(Cache_branch_by_ref(raw, gc.refs_list).keys) :
              call' = [op |-> "merged", ref |-> ref, status |-> "",
                       ret |-> ListLine_merged(raw, gc, ref)]
    /\ UNCHANGED world

\* jf delete --merged=status asks the Filter of every branch of gc.branches
FilterIsMergeStatus ==
    /\ Idle
    /\ LET raw == Config
           gc == Cache(rev_list, Cache_refs_list)
       IN \E ref \in Range(Cache_branch_by_ref(raw, gc.refs_list).keys) :
              \E status \in {"U", "F", "D", "M"} :
                  call' = [op |-> "is_merge_status", ref |-> ref, status |-> status,
                           ret |-> Filter_is_merge_status(raw, gc, ref, status)]
    /\ UNCHANGED world

\* jf sync, without --with-green, once git fetch --all --prune has brought the
\* repository to the state the cache is read from
Sync ==
    /\ Idle
    /\ \E clean \in BOOLEAN :
           LET raw == Config
               gc == Cache(rev_list, Cache_refs_list)
           IN call' = [op |-> "sync", ref |-> "", status |-> "",
                       ret |-> IF ~clean THEN RaiseSync("WorkdirIsNotCleanError", <<>>)
                               ELSE Mixin_sync(raw, gc, Cache_branch_by_ref(raw, gc.refs_list).keys,
                                               1, <<>>)]
    /\ UNCHANGED world

NextMerge ==
    \/ ListMerged
    \/ FilterIsMergeStatus
    \/ Sync

SpecMerge == InitMerge /\ [][NextMerge]_vars

(***************************************************************************)
(* C3.  As claimed: by the precedence Master > Develop > Fork > Upstream > *)
(* None, a branch (other than master and develop themselves) that is       *)
(* merged into master is tier Master, and one merged into develop but not  *)
(* into master is tier Develop, also when it is merged into its fork or    *)
(* upstream ref as well: jf list shows that tier, and the filter of        *)
(* jf delete accepts exactly the statuses up to it.                        *)
(***************************************************************************)
\* the sha show-ref printed for the ref name, "" when it printed none
PrintedSha(name) ==
    IF \E i \in 1..Len(show_ref) : show_ref[i].name = name
    THEN (CHOOSE r \in Range(show_ref) : r.name = name).sha
    ELSE ""

\* the commit d is the commit a or one of its descendants
Reaches(a, d) == a # "" /\ d # "" /\ d \in Descendants({a})

ClaimedTier(ref) ==
    LET sha == PrintedSha(ref)
        fork == Branch_fork_resolved(Config, Cache_refs(Cache_refs_list), ref)
        upstream == Branch_upstream_resolved(Config, Cache_refs(Cache_refs_list), ref)
    IN IF Reaches(sha, PrintedSha("refs/heads/master")) THEN "M"
       ELSE IF Reaches(sha, PrintedSha("refs/heads/develop")) THEN "D"
       ELSE IF fork.tag = "Ref" /\ Reaches(sha, fork.sha) THEN "F"
       ELSE IF upstream.tag = "Ref" /\ Reaches(sha, upstream.sha) THEN "U"
       ELSE "."

\* the statuses, lowest first
TierRank(tier) == Find(".UFDM", tier)

C3_TierPrecedence ==
    (call.op \in {"merged", "is_merge_status"}
     /\ call.ref \notin {"refs/heads/master", "refs/heads/develop"}
     /\ ClaimedTier(call.ref) \in {"M", "D"})
        => /\ call.op = "merged" => call.ret = StrResult(ClaimedTier(call.ref))
           /\ call.op = "is_merge_status"
                  => call.ret = BoolResult(TierRank(call.status)
                                               <= TierRank(ClaimedTier(call.ref)))

(***************************************************************************)
(* C19.  The filter of jf delete --merged with threshold T (U, F, D or M)  *)
(* accepts a branch exactly when the tier of the branch (Master if merged  *)
(* into master, else Develop, else Fork, else Upstream, else None) is at   *)
(* or above T in the order None < Upstream < Fork < Develop < Master; a    *)
(* branch of tier None is accepted by no threshold.                        *)
(***************************************************************************)
C19_FilterThreshold ==
    call.op = "is_merge_status"
        => /\ call.ret = BoolResult(TierRank(call.status) <= TierRank(ClaimedTier(call.ref)))
           /\ ClaimedTier(call.ref) = "." => call.ret = BoolResult(FALSE)

\* topic is merged into develop and into its fork green, not into master:
\* the threshold M rejects it
C19_Witness ==
    /\ call.op = "is_merge_status"
    /\ call.ref = "refs/heads/topic"
    /\ call.status = "M"
    /\ ClaimedTier("refs/heads/topic") = "D"
    /\ PrintedSha("refs/heads/master") # ""
    /\ FirstPrinted("branch.topic.jflow.fork") = "green"
    /\ Reaches(PrintedSha("refs/heads/topic"), PrintedSha("refs/heads/green"))
    /\ call.ret = BoolResult(FALSE)

(***************************************************************************)
(* C26.  As claimed: the filter of jf delete --merged does not count a     *)
(* branch as merged into itself: it does not accept the branch master for  *)
(* the status M, nor the branch develop for the status D unless develop is *)
(* merged into master.                                                     *)
(***************************************************************************)
C26_NotMergedIntoItself ==
    call.op = "is_merge_status" =>
        /\ (call.ref = "refs/heads/master" /\ call.status = "M")
               => call.ret = BoolResult(FALSE)
        /\ (call.ref = "refs/heads/develop" /\ call.status = "D"
            /\ ~Reaches(PrintedSha("refs/heads/develop"), PrintedSha("refs/heads/master")))
               => call.ret = BoolResult(FALSE)

(***************************************************************************)
(* C27.  As claimed: jf sync only fast-forwards.  For every sync-enabled   *)
(* branch whose upstream resolves: no command is issued for it when the    *)
(* upstream tip is contained in the branch; a command is issued for it     *)
(* only when its tip is an ancestor of the upstream tip, so a branch       *)
(* holding commits its upstream does not contain is never force-moved; and *)
(* every branch that is behind its upstream is moved, whatever the         *)
(* branches processed before it were.                                      *)
(***************************************************************************)
Moved(ref) == \E k \in 1..Len(call.ret.issued) : call.ret.issued[k].name = Generic_name(ref)

C27_SyncOnlyFastForwards ==
    (call.op = "sync" /\ call.ret.exc # "WorkdirIsNotCleanError") =>
        \A ref \in Range(Cache_branch_by_ref(Config, Cache_refs_list).keys) :
            LET upstream == Branch_upstream_resolved(Config, Cache_refs(Cache_refs_list), ref)
            IN (Generic_sync(Config, ref) /\ upstream.tag = "Ref") =>
                   /\ Reaches(upstream.sha, PrintedSha(ref)) => ~Moved(ref)
                   /\ Moved(ref) => Reaches(PrintedSha(ref), upstream.sha)
                   /\ (Reaches(PrintedSha(ref), upstream.sha) /\ PrintedSha(ref) # upstream.sha)
                          => Moved(ref)


(***************************************************************************)
(* cmd/delete.py and cmd/rebase.py.  The result of a command is the set of *)
(* the ref-mutating and config-mutating commands it issued, and the        *)
(* exception that ended it if one did.                                     *)
(***************************************************************************)
\* git.current_branch: the branch git symbolic-ref HEAD names
current_branch == "feature/x"

Generic_protected(raw, ref) ==
    ValueCfg_bool(raw, JfBranchCfg(Generic_name(ref)) \o <<"protected">>, FALSE)

\* gc.branch_by_abbrev.get(arg): the key of the last branch of the map that arg
\* abbreviates, "" when it abbreviates none
Cache_branch_by_abbrev(keys, arg) ==
    LET hits == SelectSeq(keys, LAMBDA k : arg \in Range(ref_abbrevs(k)))
    IN IF hits = <<>> THEN "" ELSE hits[Len(hits)]

\* _remove_ref of a resolved Ref; show-ref lists no remote-tracking ref with an
\* empty remote segment, so that 'No remote for remote ref' is not raised
remove_ref(ref) ==
    IF ref.tag # "Ref" \/ RefName_branch(ref.v) = "" THEN {}
    ELSE IF RefName_is_remote(ref.v)
    THEN {<<"git", "push", RefName_remote(ref.v), ":" \o RefName_branch(ref.v)>>}
    ELSE {<<"git", "branch", "--delete", "--force", RefName_branch(ref.v)>>}

remove_branch(raw, ref) ==
    IF Generic_is_stgit(raw, ref)
    THEN {<<"stg", "branch", "--delete", "--force", Generic_name(ref)>>}
    ELSE {<<"git", "branch", "--delete", "--force", Generic_name(ref)>>}

\* the body of the loop over bs in delete, for the branch of key ref; the
\* version of every head is 0 or 1 once the branch map has been built
delete_branch(raw, gc, ref) ==
    IF Generic_jflow_version(raw, ref) # 0
    THEN LET refs_list == {Resolve(gc.refs, Generic_public(raw, ref)),
                           Resolve(gc.refs, Generic_ldebug(raw, ref)),
                           Resolve(gc.refs, Generic_review(raw, ref)),
                           Resolve(gc.refs, Generic_debug(raw, ref))}
         IN UNION {remove_ref(r) : r \in {q \in refs_list : q.tag = "Ref" /\ q.v # ref}}
            \cup remove_branch(raw, ref)
            \cup {<<"git", "config", "--remove-section", Path_path(JfBranchCfg(Generic_name(ref)))>>}
    ELSE remove_branch(raw, ref)

\* delete(branch, merged), merged = "" without the option.  input_branches is
\* a set: the order of its iteration changes neither the commands issued nor
\* whether 'Branch not found' is raised, which happens before the loop over bs
delete(raw, gc, branch, merged) ==
    LET by_ref == Cache_branch_by_ref(raw, gc.refs_list)
        accepted == SelectSeq(by_ref.keys,
                        LAMBDA k : Filter_is_merge_status(raw, gc, k, merged).val)
        input_branches == branch \cup (IF merged = "" THEN {}
                                       ELSE {Generic_name(k) : k \in Range(accepted)})
        bs == {k \in {Cache_branch_by_abbrev(by_ref.keys, arg) : arg \in input_branches} :
                  Generic_name(k) # current_branch /\ ~Generic_protected(raw, k)}
    IN IF by_ref.tag = "raise" THEN RaiseSync(by_ref.v, {})
       ELSE IF merged # "" /\ \E k \in Range(by_ref.keys) :
                                  Filter_is_merge_status(raw, gc, k, merged).tag = "raise"
       THEN RaiseSync("KeyError", {})
       ELSE IF \E arg \in input_branches : Cache_branch_by_abbrev(by_ref.keys, arg) = ""
       THEN RaiseSync("Error", {})
       ELSE [tag |-> "ok", issued |-> UNION {delete_branch(raw, gc, k) : k \in bs}, exc |-> ""]

\* Branch.publish_local_public(msg), force_new left False as rebase leaves it
Branch_publish_local_public(raw, gc, ref, msg) ==
    LET public == Generic_public(raw, ref)
        public_ref == Resolve(gc.refs, public)
        ldebug_resolved == Resolve(gc.refs, Generic_ldebug(raw, ref))
        merged == Cache_is_merged_into(gc.commits, public_ref.sha, ldebug_resolved.sha)
        publish == {<<"stg", "publish">> \o (IF msg = "" THEN <<>> ELSE <<"--message=" \o msg>>)
                        \o <<RefName_branch(public.v)>>}
    IN IF ~RefTruthy(public) \/ RefName_branch(public.v) = "" THEN RaiseSync("Error", {})
       ELSE IF Generic_name(ref) = RefName_branch(public.v)
       THEN [tag |-> "ok", issued |-> {}, exc |-> ""]
       ELSE IF Resolve(gc.refs, Generic_stgit(raw, ref)).tag # "Ref"
       THEN RaiseSync("NotImplementedError", {})
       ELSE IF ldebug_resolved.tag # "Ref" THEN [tag |-> "ok", issued |-> publish, exc |-> ""]
       ELSE IF public_ref.tag = "Ref" /\ merged.tag = "raise" THEN RaiseSync(merged.exc, {})
       ELSE IF public_ref.tag # "Ref" \/ merged.val
       THEN [tag |-> "ok", exc |-> "",
             issued |-> {<<"git", "branch", "--force", "--no-track",
                           RefName_branch(public.v), ldebug_resolved.v>>} \cup publish]
       ELSE [tag |-> "ok", issued |-> publish, exc |-> ""]

\* fork_ref = upstream.tested or upstream_ref
Rebase_tested_or(tested, upstream_ref) == IF tested.tag = "Ref" THEN tested ELSE upstream_ref

\* the end of Rebase.main: the second publish_local_public, when the branch
\* has a public ref
Rebase_main_published(need_publish, issued, again) ==
    IF need_publish /\ again.tag = "raise" THEN RaiseSync(again.exc, issued)
    ELSE [tag |-> "ok", exc |-> "",
          issued |-> issued \cup (IF need_publish THEN again.issued ELSE {})]

\* Rebase.main, lines 119-129: the config writes, the rebase and the second
\* publish, issued holding what the command has run before them
Rebase_main_run(raw, gc, ref, need_publish, issued, fork_ref) ==
    Rebase_main_published(
        need_publish,
        issued \cup {<<"stg", "rebase", "--merged", fork_ref>>, <<"git", "clean", "-d", "--force">>},
        Branch_publish_local_public(raw, gc, ref,
            "Merge " \o Generic_name(fork_ref) \o " into " \o Generic_name(ref)))

\* Rebase.main, lines 99-122: the fork reference and the checks of the branch;
\* set_upstream is the write of jflow.upstream that line 120 runs
Rebase_main_fork(raw, gc, ref, keys, flags, need_publish, issued, set_upstream, fork_ref) ==
    IF flags.fork # "" /\ fork_ref.tag = "raise" THEN RaiseSync(fork_ref.v, issued)
    ELSE IF flags.fork # "" /\ RefName_kind(fork_ref.v) # "head" THEN RaiseSync("Error", issued)
    ELSE IF fork_ref.tag # "Ref" THEN RaiseSync("Error", issued)
    ELSE IF fork_ref.v \notin Range(keys) THEN RaiseSync("KeyError", issued)
    ELSE IF ~Generic_is_jflow(raw, ref) THEN RaiseSync("NotImplementedError", issued)
    ELSE IF ~Generic_is_stgit(raw, ref) THEN RaiseSync("NotImplementedError", issued)
    ELSE IF Generic_jflow_version(raw, ref) # 1 THEN RaiseSync("TypeError", issued)
    ELSE Rebase_main_run(raw, gc, ref, need_publish,
             issued \cup set_upstream
                    \cup (IF flags.fork # ""
                           THEN {<<"git", "config",
                                   Path_path(JfBranchCfg(Generic_name(ref)) \o <<"fork">>),
                                   Generic_name(fork_ref.v)>>}
                           ELSE {}),
             fork_ref.v)

\* Rebase.main, lines 88-98: the upstream reference
Rebase_main_upstream(raw, gc, ref, keys, flags, need_publish, issued, branch_upstream, upstream_ref) ==
    IF flags.upstream # "" /\ upstream_ref.tag = "raise" THEN RaiseSync(upstream_ref.v, issued)
    ELSE IF flags.upstream # "" /\ RefName_kind(upstream_ref.v) # "head"
    THEN RaiseSync("Error", issued)
    ELSE IF RefName_branch(upstream_ref.v) = "" THEN RaiseSync("Error", issued)
    ELSE IF HEAD_PREFIX \o RefName_branch(upstream_ref.v) \notin Range(keys)
    THEN RaiseSync("KeyError", issued)
    ELSE Rebase_main_fork(raw, gc, ref, keys, flags, need_publish, issued,
             IF upstream_ref.v # branch_upstream.v
             THEN {<<"git", "config", Path_path(JfBranchCfg(Generic_name(ref)) \o <<"upstream">>),
                     RefName_branch(upstream_ref.v)>>}
             ELSE {},
             IF flags.fork # "" THEN Cache_get_ref(gc.refs_list, flags.fork)
             ELSE IF upstream_ref.v # branch_upstream.v
             THEN Rebase_tested_or(
                      Resolve(gc.refs, Generic_tested(raw, HEAD_PREFIX \o RefName_branch(upstream_ref.v))),
                      upstream_ref)
             ELSE Branch_fork_resolved(raw, gc.refs, ref))

\* Rebase.main from line 88 on: issued holds what publish_local_public ran
Rebase_main_checked(raw, gc, ref, keys, flags, need_publish, issued) ==
    Rebase_main_upstream(raw, gc, ref, keys, flags, need_publish, issued,
        Branch_upstream_resolved(raw, gc.refs, ref),
        IF flags.upstream # "" THEN Cache_get_ref(gc.refs_list, flags.upstream)
        ELSE Branch_upstream_resolved(raw, gc.refs, ref))

\* Rebase.main, lines 84-86: branch.publish_local_public() when the branch has
\* a public ref
Rebase_main_publish(raw, gc, ref, keys, flags, need_publish, published) ==
    IF need_publish /\ published.tag = "raise" THEN published
    ELSE Rebase_main_checked(raw, gc, ref, keys, flags, need_publish,
                             IF need_publish THEN published.issued ELSE {})

\* Rebase.main, lines 76-83
Rebase_main_branch(raw, gc, ref, flags, by_ref) ==
    IF by_ref.tag = "raise" THEN RaiseSync(by_ref.v, {})
    ELSE IF ref \notin Range(by_ref.keys) THEN RaiseSync("KeyError", {})
    ELSE IF Branch_upstream_resolved(raw, gc.refs, ref).tag # "Ref" THEN RaiseSync("Error", {})
    ELSE Rebase_main_publish(raw, gc, ref, by_ref.keys, flags,
             Resolve(gc.refs, Generic_public(raw, ref)).tag = "Ref",
             Branch_publish_local_public(raw, gc, ref, flags.message))

\* Rebase.main; branch.upstream, branch.public and branch.fork are the Refs
\* the names resolve to
Rebase_main(raw, gc, flags, clean) ==
    IF ~clean THEN RaiseSync("WorkdirIsNotCleanError", {})
    ELSE IF current_branch = "" THEN RaiseSync("Error", {})
    ELSE Rebase_main_branch(raw, gc, HEAD_PREFIX \o current_branch, flags,
                            Cache_branch_by_ref(raw, gc.refs_list))

(***************************************************************************)
(* SpecCmd: jf delete and jf rebase run in a repository of two commits,    *)
(* c1 and its child c2, where feature/x is checked out; the stack of       *)
(* feature/x, when it has one, keeps its log in a commit c3 of its own.    *)
(***************************************************************************)
CmdRepos == {
    [show_ref |-> <<Ref("refs/heads/develop", "c1"), Ref("refs/heads/feature/x", "c2"),
                    Ref("refs/heads/feature/x_pub", "c2"), Ref("refs/heads/old", "c1"),
                    Ref("refs/heads/old_pub", "c1"), Ref("refs/heads/release", "c1"),
                    Ref("refs/tags/release", "c1")>>,
     rev_list |-> <<"commit c2", "parents c1", "refs HEAD -> feature/x, feature/x_pub",
                    "commit c1", "parents",
                    "refs develop, old, old_pub, heads/release, tag: release">>],
    [show_ref |-> <<Ref("refs/heads/develop", "c1"), Ref("refs/heads/feature/x", "c2"),
                    Ref("refs/heads/feature/x.stgit", "c3"),
                    Ref("refs/heads/feature/x_pub", "c2"), Ref("refs/heads/old", "c1"),
                    Ref("refs/heads/old_pub", "c1"), Ref("refs/heads/release", "c1"),
                    Ref("refs/tags/release", "c1")>>,
     rev_list |-> <<"commit c3", "parents", "refs feature/x.stgit",
                    "commit c2", "parents c1", "refs HEAD -> feature/x, feature/x_pub",
                    "commit c1", "parents",
                    "refs develop, old, old_pub, heads/release, tag: release">>]
}

CmdCfgs == {
    <<>>,
    <<"branch.feature/x.jflow.version=1", "branch.feature/x.jflow.upstream=develop",
      "branch.feature/x.jflow.public=feature/x_pub",
      "branch.feature/x.stgit.stackformatversion=2">>,
    <<"branch.feature/x.jflow.version=1", "branch.feature/x.jflow.upstream=develop",
      "branch.feature/x.stgit.stackformatversion=2">>,
    <<"branch.feature/x.jflow.version=1", "branch.feature/x.jflow.upstream=develop",
      "branch.feature/x.jflow.public=feature/x_pub",
      "branch.feature/x.stgit.stackformatversion=2",
      "branch.old.jflow.version=1", "branch.old.jflow.public=old_pub",
      "branch.old_pub.jflow.protected=true">>,
    <<"branch.old.jflow.version=1", "branch.old.jflow.public=feature/x">>,
    <<"branch.old.jflow.version=1", "branch.old.jflow.public=old_pub">>,
    <<"branch.old.jflow.protected=true">>,
    <<"branch.old.jflow.version=2">>
}

InitCmd ==
    \E repo \in CmdRepos :
        /\ gitconfig \in CmdCfgs
        /\ show_ref = repo.show_ref
        /\ head_sha = "c2"
        /\ rev_list = repo.rev_list
        /\ Fresh
    /\ call = NoCall

\* jf delete [--merged=status] branch...
Delete ==
    /\ Idle
    /\ \E branch \in {S \in SUBSET {"old", "old_pub", "feature/x", "nosuch"} : Cardinality(S) <= 2} :
       \E merged \in {"", "M", "U"} :
           call' = [op |-> "delete", branch |-> branch, merged |-> merged,
                    ret |-> delete(Config, Cache(rev_list, Cache_refs_list), branch, merged)]
    /\ UNCHANGED world

\* jf rebase [--upstream=BRANCH] [--fork=BRANCH] [-m MESSAGE]
Rebase ==
    /\ Idle
    /\ \E upstream \in {"", "old", "release", "tags/release", "nosuch"} :
       \E fork \in {"", "develop", "release"} :
       \E clean \in BOOLEAN :
           LET flags == [upstream |-> upstream, fork |-> fork, message |-> ""]
           IN call' = [op |-> "rebase", flags |-> flags, clean |-> clean,
                       ret |-> Rebase_main(Config, Cache(rev_list, Cache_refs_list), flags, clean)]
    /\ UNCHANGED world

NextCmd ==
    \/ Delete
    \/ Rebase

SpecCmd == InitCmd /\ [][NextCmd]_vars

(***************************************************************************)
(* C25.  As claimed: jf delete issues no deletion for the head of the      *)
(* current branch nor for a head whose branch config has protected=true,   *)
(* whether the head was named, selected by --merged or is a related ref of *)
(* a deleted branch; and when a named branch is not found, delete raises   *)
(* and has deleted nothing.                                                *)
(***************************************************************************)
\* the local heads a command of the set deletes
DeletedHeads(issued) ==
    {cmd[5] : cmd \in {c \in issued : Len(c) = 5 /\ c[2] = "branch" /\ c[3] = "--delete"}}

C25_DeleteSparesCurrentAndProtected ==
    call.op = "delete" =>
        /\ \A name \in DeletedHeads(call.ret.issued) :
               /\ name # current_branch
               /\ ~Generic_protected(Config, HEAD_PREFIX \o name)
        /\ "nosuch" \in call.branch => (call.ret.tag = "raise" /\ call.ret.issued = {})

(***************************************************************************)
(* C22.  As claimed: no partial mutation on abort.  Whenever jf rebase or  *)
(* jf delete ends with an error of the taxonomy (the Error raised for an   *)
(* ambiguous reference, a missing relationship or a branch not found, the  *)
(* unsupported-version error, the dirty-workdir error), it has issued no   *)
(* ref-mutating or config-mutating command.                                *)
(***************************************************************************)
C22_NoPartialMutation ==
    (/\ call.op \in {"rebase", "delete"}
     /\ call.ret.tag = "raise"
     /\ call.ret.exc \in {"Error", "WorkdirIsNotCleanError", "UnsupportedJflowVersionError"})
        => call.ret.issued = {}


(***************************************************************************)
(* repo.py: the cached properties of Cache and the lru_cache of            *)
(* resolve_shortcut.  An attribute is computed from the attribute its      *)
(* getter reads and stored unless the getter raises.                       *)
(***************************************************************************)
MaxInvocations == 2

CacheShortcuts == {"feature"}

CacheProperties ==
    {"refs_list", "refs_abbrevs", "refs", "commits", "branch_by_ref", "branch_by_abbrev",
     "branches"} \cup {"resolve_shortcut:" \o shortcut : shortcut \in CacheShortcuts}

Returned(v) == [tag |-> "ok", v |-> v]

\* d[k] = v
Put(d, k, v) == [q \in DOMAIN d \cup {k} |-> IF q = k THEN v ELSE d[q]]

\* the attribute the getter of p reads, "" when it reads none; commits reads
\* self.refs when it meets a decorated commit
Dep(p) ==
    CASE p = "refs_list" -> ""
      [] p = "refs_abbrevs" -> "refs_list"
      [] p = "refs" -> "refs_abbrevs"
      [] p = "commits" ->
            IF \E i \in 1..Len(rev_list) : StartsWith(rev_list[i], "refs ") /\ Len(rev_list[i]) > 5
            THEN "refs" ELSE ""
      [] p = "branch_by_ref" -> "refs_list"
      [] p = "branch_by_abbrev" -> "branch_by_ref"
      [] p = "branches" -> "branch_by_ref"
      [] OTHER -> "refs_list"

\* the body of the getter of p, d being the attribute it reads
Compute(p, d) ==
    CASE p = "refs_list" -> Returned(gen_refs(head_sha, show_ref))
      [] p = "refs_abbrevs" -> Returned(Cache_refs_abbrevs(d))
      [] p = "refs" -> Returned([name \in {a \in DOMAIN d : Len(d[a]) = 1} |-> d[name][1]])
      [] p = "commits" ->
            LET commits == Cache_commits(rev_list, d)
            IN IF commits.tag = "raise" THEN Raise(commits.exc) ELSE Returned(commits.commits)
      [] p = "branch_by_ref" ->
            LET branch_refs == Cache_branch_by_ref(Config, d)
            IN IF branch_refs.tag = "raise" THEN Raise(branch_refs.v)
               ELSE Returned(branch_refs.keys)
      [] p = "branch_by_abbrev" ->
            Returned([abbrev \in UNION {Range(ref_abbrevs(d[i])) : i \in 1..Len(d)} |->
                          Cache_branch_by_abbrev(d, abbrev)])
      [] p = "branches" ->
            Returned([name \in {Generic_name(d[i]) : i \in 1..Len(d)} |->
                          LET hits == SelectSeq(d, LAMBDA k : Generic_name(k) = name)
                          IN hits[Len(hits)]])
      [] OTHER -> Returned(Cache_resolve_shortcut(d, SubSeq(p, 18, Len(p))))

\* cached_property.__get__ and the lru_cache wrapper, were nothing ever found
\* in the cache
Never(c, p) == FALSE

\* cached_property.__get__ and the lru_cache wrapper: is the value stored
Cached(c, p) == p \in DOMAIN c.memo

\* the end of cached_property.__get__ and of the lru_cache wrapper: what the
\* getter returned is stored, what it raised is not
Cache_store(c, p, ret) ==
    [cache |-> IF ret.tag = "raise" THEN c ELSE [c EXCEPT !.memo = Put(@, p, ret)],
     ret |-> ret]

\* the getter of p runs, dep being the read of the attribute it reads
Cache_compute(p, dep) ==
    Cache_store([dep.cache EXCEPT
                    !.enumerations = @ + (IF p = "refs_list" THEN 1 ELSE 0),
                    !.listings = @ + (IF p = "commits" THEN 1 ELSE 0)],
                p,
                IF dep.ret.tag = "raise" THEN dep.ret ELSE Compute(p, dep.ret.v))

\* reading attribute p of the Cache c: the Cache afterwards and what the read
\* gave
RECURSIVE Cache_get(_, _)
Cache_get(c, p) ==
    IF Cached(c, p) THEN [cache |-> c, ret |-> c.memo[p]]
    ELSE Cache_compute(p, IF Dep(p) = "" THEN [cache |-> c, ret |-> Returned(<<>>)]
                          ELSE Cache_get(c, Dep(p)))

(***************************************************************************)
(* SpecCache: a command reads the attributes of its one Cache in any       *)
(* order, any number of times, while the repository changes under it       *)
(* (the stack of feature/x is created or dropped).                         *)
(***************************************************************************)
CacheCfgs == {
    <<>>,
    <<"branch.feature/x.jflow.version=1", "branch.feature/x.jflow.upstream=develop",
      "branch.feature/x.jflow.public=feature/x_pub",
      "branch.feature/x.stgit.stackformatversion=2">>,
    <<"branch.old.jflow.version=2">>
}

InitCache ==
    /\ InitCmd
    /\ gitconfig \in CacheCfgs

\* one read of an attribute, or one call of resolve_shortcut
Access ==
    /\ cache.enumerations <= MaxInvocations
    /\ cache.listings <= MaxInvocations
    /\ \E p \in CacheProperties :
       \E got \in {Cache_get(cache, p)} :
           /\ cache' = [got.cache EXCEPT
                           !.first = IF p \in DOMAIN @ THEN @ ELSE Put(@, p, got.ret)]
           /\ call' = [op |-> p, ret |-> got.ret]
    /\ UNCHANGED <<gitconfig, head_sha, show_ref, rev_list, holder>>

\* git changes the refs and the history between two reads
RepoChanges ==
    /\ \E repo \in CmdRepos :
           /\ repo.show_ref # show_ref
           /\ show_ref' = repo.show_ref
           /\ rev_list' = repo.rev_list
    /\ UNCHANGED <<gitconfig, head_sha, cache, holder, call>>

NextCache ==
    \/ Access
    \/ RepoChanges

SpecCache == InitCache /\ [][NextCache]_vars

(***************************************************************************)
(* C23.  Memoization of the repository cache: over any sequence of reads   *)
(* of refs_list, refs_abbrevs, refs, commits, branch_by_ref,               *)
(* branch_by_abbrev, branches and resolve_shortcut on one Cache, git       *)
(* show-ref and git rev-list are each run at most once, and every read     *)
(* returns what the first read of the same attribute returned.             *)
(***************************************************************************)
C23_Memoized ==
    /\ cache.enumerations <= 1
    /\ cache.listings <= 1
    /\ call.op \in CacheProperties => call.ret = cache.first[call.op]

\* refs_list is read again after the repository changed and still returns
\* the refs of the first read
C23_Witness ==
    /\ call.op = "refs_list"
    /\ call.ret.v # gen_refs(head_sha, show_ref)
    /\ cache.enumerations = 1


(***************************************************************************)
(* config.py: GitConfigHolder, the raw store of one command, over the      *)
(* local configuration file git keeps; schema.py: ValueCfg.value;          *)
(* git.py: GenericBranch.hidden and set_hidden.                            *)
(***************************************************************************)
MaxWrites == 3

\* the path of GitBranchCfg('feature/x').jf.hidden
HiddenPath == Path_path(JfBranchCfg(current_branch) \o <<"hidden">>)

\* what git config --local does to the file: a plain set refuses a name that
\* has several values, --unset-all a name that has none (exit code 5)
git_config(lines, op, name, value) ==
    LET others == SelectSeq(lines, LAMBDA l : gen_config(l)[1] # name)
        had == Len(lines) - Len(others)
    IN CASE op = "set" ->
              IF had > 1 THEN [ok |-> FALSE, lines |-> lines]
              ELSE [ok |-> TRUE,
                    lines |-> IF had = 0 THEN Append(lines, name \o "=" \o value)
                              ELSE [i \in 1..Len(lines) |->
                                        IF gen_config(lines[i])[1] = name
                                        THEN name \o "=" \o value ELSE lines[i]]]
         [] op = "reset" -> [ok |-> TRUE, lines |-> Append(others, name \o "=" \o value)]
         [] op = "append" -> [ok |-> TRUE, lines |-> Append(lines, name \o "=" \o value)]
         [] OTHER -> [ok |-> had > 0, lines |-> others]

\* GitConfigHolder.config: _config, loaded from git at the first read
GitConfigHolder_loaded(h) ==
    IF h.config.loaded THEN h
    ELSE [h EXCEPT !.config = [loaded |-> TRUE, raw |-> GitConfigHolder_config(gitconfig)]]

\* what GitConfigHolder.set, reset, append and unset do to _config once the
\* git command has succeeded
GitConfigHolder_write(h, op, name, value) ==
    IF ~h.config.loaded THEN h
    ELSE [h EXCEPT !.config.raw =
             CASE op \in {"set", "reset"} -> Put(@, name, <<value>>)
               [] op = "append" -> Put(@, name, Append(RawGet(@, name), value))
               [] OTHER -> [k \in DOMAIN @ \ {name} |-> @[k]]]

\* BoolType.to_string
BoolType_to_string(v) == IF v THEN "true" ELSE "false"

\* self.cfg.jf.hidden.value: the cached_property of the ValueCfg object the
\* section of the branch keeps
ValueCfg_value(h) ==
    IF h.value.cached THEN h
    ELSE LET l == GitConfigHolder_loaded(h)
         IN [l EXCEPT !.value =
                [cached |-> TRUE, v |-> ValueCfg_bool(l.config.raw, JfBranchCfg(current_branch) \o <<"hidden">>, FALSE)]]

\* GenericBranch.hidden, a cached_property over ValueCfg.value
GenericBranch_hidden(h) ==
    IF h.hidden.cached THEN h
    ELSE LET l == ValueCfg_value(h)
         IN [l EXCEPT !.hidden = [cached |-> TRUE, v |-> l.value.v]]

(***************************************************************************)
(* SpecHolder: one command reads and writes branch.feature/x.jflow.hidden  *)
(* in any order: through the raw store, through the typed accessor of a    *)
(* section object made for the read, through the attribute of its Branch   *)
(* object, and with the writes of the store and set_hidden.                *)
(***************************************************************************)
InitHolder ==
    /\ \E repo \in CmdRepos :
           /\ show_ref = repo.show_ref
           /\ rev_list = repo.rev_list
    /\ head_sha = "c2"
    /\ Fresh
    /\ call = NoCall
    /\ \E values \in {<<>>, <<"true">>, <<"false">>, <<"false", "true">>} :
           gitconfig = <<"branch.feature/x.jflow.version=1">>
                       \o [i \in 1..Len(values) |-> HiddenPath \o "=" \o values[i]]

\* holder.config.get(path, [])
ReadRaw ==
    /\ holder' = GitConfigHolder_loaded(holder)
    /\ call' = [op |-> "read", via |-> "raw", ret |-> RawGet(holder'.config.raw, HiddenPath)]
    /\ UNCHANGED <<gitconfig, head_sha, show_ref, rev_list, cache>>

\* gc.cfg.branch[name].jf.hidden.value: Map.__getitem__ makes a new section
\* object, whose ValueCfg has nothing cached
ReadTyped ==
    /\ holder' = GitConfigHolder_loaded(holder)
    /\ call' = [op |-> "read", via |-> "typed",
                ret |-> ValueCfg_bool(holder'.config.raw, JfBranchCfg(current_branch) \o <<"hidden">>, FALSE)]
    /\ UNCHANGED <<gitconfig, head_sha, show_ref, rev_list, cache>>

\* b.hidden of the command's Branch object of feature/x
ReadBranch ==
    /\ holder' = GenericBranch_hidden(holder)
    /\ call' = [op |-> "read", via |-> "branch", ret |-> holder'.hidden.v]
    /\ UNCHANGED <<gitconfig, head_sha, show_ref, rev_list, cache>>

\* holder.set / reset / append / unset of the path
Write ==
    /\ holder.writes < MaxWrites
    /\ \E op \in {"set", "reset", "append", "unset"} :
       \E value \in IF op = "unset" THEN {""} ELSE {"true", "false"} :
           LET git == git_config(gitconfig, op, HiddenPath, value)
           IN /\ gitconfig' = git.lines
              /\ holder' = IF git.ok
                           THEN [GitConfigHolder_write(holder, op, HiddenPath, value)
                                     EXCEPT !.writes = @ + 1]
                           ELSE holder
              /\ call' = [op |-> op, via |-> value,
                          ret |-> IF git.ok THEN "None" ELSE "CalledProcessError"]
    /\ UNCHANGED <<head_sha, show_ref, rev_list, cache>>

\* b.set_hidden(value)
SetHidden ==
    /\ holder.writes < MaxWrites
    /\ \E value \in BOOLEAN :
           LET h == GenericBranch_hidden(holder)
               git == git_config(gitconfig, "set", HiddenPath, BoolType_to_string(value))
           IN IF value = h.hidden.v
              THEN /\ holder' = h
                   /\ call' = [op |-> "set_hidden", via |-> BoolType_to_string(value),
                               ret |-> "None"]
                   /\ UNCHANGED gitconfig
              ELSE /\ gitconfig' = git.lines
                   /\ holder' = IF git.ok
                                THEN [GitConfigHolder_write(h, "set", HiddenPath,
                                                            BoolType_to_string(value))
                                          EXCEPT !.writes = @ + 1]
                                ELSE h
                   /\ call' = [op |-> "set_hidden", via |-> BoolType_to_string(value),
                               ret |-> IF git.ok THEN "None" ELSE "CalledProcessError"]
    /\ UNCHANGED <<head_sha, show_ref, rev_list, cache>>

NextHolder ==
    \/ ReadRaw
    \/ ReadTyped
    \/ ReadBranch
    \/ Write
    \/ SetHidden

SpecHolder == InitHolder /\ [][NextHolder]_vars

(***************************************************************************)
(* C21.  As claimed: read-your-writes on the config store within one       *)
(* invocation.  After a set, reset, append or unset of a path, every later *)
(* read of the path (through the raw store, through a typed accessor or    *)
(* through a Branch attribute, read before the write or not) gives what    *)
(* the store holds after the write.                                        *)
(***************************************************************************)
C21_ReadYourWrites ==
    (call.op = "read" /\ holder.writes > 0) =>
        LET stored == RawGet(GitConfigHolder_config(gitconfig), HiddenPath)
        IN call.ret = IF call.via = "raw" THEN stored
                      ELSE IF stored = <<>> THEN FALSE ELSE ParseBool(stored[1])

\* what holds of the code: the raw store and the typed accessor of a section
\* object made for the read give what was written
C21_RawAndFreshReadsSeeWrites ==
    (call.op = "read" /\ call.via # "branch" /\ holder.writes > 0) =>
        LET stored == RawGet(GitConfigHolder_config(gitconfig), HiddenPath)
        IN call.ret = IF call.via = "raw" THEN stored
                      ELSE IF stored = <<>> THEN FALSE ELSE ParseBool(stored[1])

=============================================================================
